---- MODULE Spec2Model ----
(***************************************************************************)
(* A model of the world-consistency core of GameDataGen:                   *)
(*   SpatialGrid     (src/src/gamedatagen/core/spatial_system.py)          *)
(*   KnowledgeGraph  (src/src/gamedatagen/core/knowledge_graph.py)         *)
(*   LevelingSystem  (src/src/gamedatagen/core/leveling_system.py)         *)
(* Coordinates, sizes and radii are integers; sizes are even so that the   *)
(* code's size/2 is exact.  A uniform random draw from [lo, hi] is any     *)
(* integer of lo..hi.  Iteration over a Python set of ids has no fixed     *)
(* order, so an operation whose outcome depends on that order has a set of *)
(* outcomes.                                                               *)
(***************************************************************************)
EXTENDS Integers, Sequences, FiniteSets, TLC

VARIABLES
  objects,          \* SpatialGrid.objects: id -> PlacedObject
  grid,             \* SpatialGrid.grid: cell -> list of ids
  triplets,         \* KnowledgeGraph.triplets: list of Triplet
  subject_index,    \* KnowledgeGraph._subject_index: key -> list of Triplet
  object_index,     \* KnowledgeGraph._object_index
  predicate_index,  \* KnowledgeGraph._predicate_index
  leveling,         \* the LevelingSystem: <<>> before one is made, else <<system>>
  calls,            \* calls run step by step: id (or "find_placement") -> position, locals
  op,               \* the operation called last
  ret               \* what it returned (kind "raise": it raised instead)

gridVars == <<objects, grid>>
kgVars == <<triplets, subject_index, object_index, predicate_index>>
lvlVars == <<leveling>>
callVars == <<calls>>
vars ==
  <<objects, grid, triplets, subject_index, object_index, predicate_index, leveling, calls,
    op, ret>>

---------------------------------------------------------------------------
(* Bounds of the model *)

MaxCoord == 2       \* x coordinates of submitted boxes and draws: 0..MaxCoord
MaxEntries == 3     \* the buckets of the grid list at most this many ids in all
MaxCount == 2       \* procedural_placement: count in 0..MaxCount
MaxRadius == 1      \* find_nearby: radius in 0..MaxRadius
MaxAttempts == 2    \* find_placement called directly: max_attempts in 0..MaxAttempts

(* Constructor arguments of the grid under study *)
cell_size == 2
GridBounds == [min |-> [x |-> 0, y |-> 0, z |-> 0],
               max |-> [x |-> MaxCoord, y |-> 1, z |-> 0]]

(* find_placement's default max_attempts, the one procedural_placement uses *)
DefaultMaxAttempts == 100

---------------------------------------------------------------------------
(* Helpers on lists and maps *)

Range(s) == {s[i] : i \in 1..Len(s)}

(* list.remove(v): the list without the first occurrence of v *)
RECURSIVE RemoveFirst(_, _)
RemoveFirst(s, v) ==
  IF s = <<>> THEN <<>>
  ELSE IF Head(s) = v THEN Tail(s)
  ELSE <<Head(s)>> \o RemoveFirst(Tail(s), v)

(* d[k] = v on a dict modelled as a function *)
Put(d, k, v) == [i \in DOMAIN d \cup {k} |-> IF i = k THEN v ELSE d[i]]

(* del d[k] *)
Del(d, k) == [i \in DOMAIN d \ {k} |-> d[i]]

EmptyMap == [i \in {} |-> 0]

---------------------------------------------------------------------------
(* Vector3, BoundingBox *)

Vec(a, b, c) == [x |-> a, y |-> b, z |-> c]

VecAdd(a, b) == Vec(a.x + b.x, a.y + b.y, a.z + b.z)

VecSub(a, b) == Vec(a.x - b.x, a.y - b.y, a.z - b.z)

(* Vector3.distance_to, squared: sqrt is monotone, so d <= r iff d^2 <= r^2 *)
distance_sq(a, b) ==
  (a.x - b.x) * (a.x - b.x) + (a.y - b.y) * (a.y - b.y) + (a.z - b.z) * (a.z - b.z)

WithinRadius(a, b, r) == r >= 0 /\ distance_sq(a, b) <= r * r

contains(b, p) ==
  /\ b.min.x <= p.x /\ p.x <= b.max.x
  /\ b.min.y <= p.y /\ p.y <= b.max.y
  /\ b.min.z <= p.z /\ p.z <= b.max.z

intersects(a, b) ==
  /\ a.min.x <= b.max.x
  /\ a.max.x >= b.min.x
  /\ a.min.y <= b.max.y
  /\ a.max.y >= b.min.y
  /\ a.min.z <= b.max.z
  /\ a.max.z >= b.min.z

---------------------------------------------------------------------------
(* SpatialGrid *)

(* __init__: the arguments are stored as they come, none is tested *)
SpatialGrid(bounds, size) ==
  [kind |-> "instance", bounds |-> bounds, cell_size |-> size,
   objects |-> EmptyMap, grid |-> EmptyMap]

(* int(np.floor(c / cell_size)); \div rounds down *)
CellOf(c) == c \div cell_size

(* The cells are distinct, and each is appended to or removed from on its  *)
(* own, so the order of the list the code builds does not matter.          *)
_get_cells(b) ==
  {<<cx, cy, cz>> : cx \in CellOf(b.min.x)..CellOf(b.max.x),
                    cy \in CellOf(b.min.y)..CellOf(b.max.y),
                    cz \in CellOf(b.min.z)..CellOf(b.max.z)}

(* The broad phase that looks only into the cell of the min corner of b *)
Candidates_of_min_cell(g, b) ==
  UNION {Range(g[c]) : c \in {<<CellOf(b.min.x), CellOf(b.min.y), CellOf(b.min.z)>>} \cap DOMAIN g}

(* The broad phase: the union of the buckets of the cells of b *)
Candidates(g, b) ==
  UNION {Range(g[c]) : c \in _get_cells(b) \cap DOMAIN g}

(* check_collision: the results the loop over the candidate set can have.  *)
(* exclude is {} for None and {id} otherwise.  The loop looks an id up in  *)
(* objects (KeyError if it is not there) and returns True at the first     *)
(* intersecting one; it returns False after visiting them all.             *)
check_collision(objs, g, b, exclude) ==
  LET cand == Candidates(g, b) \ exclude
      gone == {i \in cand : i \notin DOMAIN objs}
      hit == {i \in cand \ gone : intersects(b, objs[i].bounds)}
  IN  (IF gone # {} THEN {"KeyError"} ELSE {})
        \cup (IF hit # {} THEN {"True"} ELSE {})
        \cup (IF gone = {} /\ hit = {} THEN {"False"} ELSE {})

(* The loop of add_object over the cells *)
AppendCells(g, cells, id) ==
  [c \in DOMAIN g \cup cells |->
     IF c \in cells
       THEN Append(IF c \in DOMAIN g THEN g[c] ELSE <<>>, id)
       ELSE g[c]]

(* The loop of remove_object over the cells *)
RemoveCells(g, cells, id) ==
  LET touched == {c \in cells \cap DOMAIN g : id \in Range(g[c])}
      emptied == {c \in touched : RemoveFirst(g[c], id) = <<>>}
  IN  [c \in DOMAIN g \ emptied |->
         IF c \in touched THEN RemoveFirst(g[c], id) ELSE g[c]]

(* add_object: the outcomes [objects, grid, ret] *)
add_object(objs, g, obj) ==
  {IF c = "KeyError" THEN [objects |-> objs, grid |-> g, ret |-> [kind |-> "raise"]]
   ELSE IF c = "True" THEN [objects |-> objs, grid |-> g, ret |-> [kind |-> "bool", val |-> FALSE]]
   ELSE [objects |-> Put(objs, obj.id, obj),
         grid |-> AppendCells(g, _get_cells(obj.bounds), obj.id),
         ret |-> [kind |-> "bool", val |-> TRUE]]
   : c \in check_collision(objs, g, obj.bounds, {obj.id})}

(* remove_object: the outcome [objects, grid, ret] *)
remove_object(objs, g, id) ==
  IF id \notin DOMAIN objs
    THEN [objects |-> objs, grid |-> g, ret |-> [kind |-> "bool", val |-> FALSE]]
    ELSE [objects |-> Del(objs, id),
          grid |-> RemoveCells(g, _get_cells(objs[id].bounds), id),
          ret |-> [kind |-> "bool", val |-> TRUE]]

(* The cube find_nearby searches *)
SearchBounds(p, r) ==
  [min |-> Vec(p.x - r, p.y - r, p.z - r), max |-> Vec(p.x + r, p.y + r, p.z + r)]

(* find_nearby: [kind |-> "raise"] or [kind |-> "list", val |-> the set of *)
(* the objects returned]; the candidates are a set, so an object is in the *)
(* returned list once, at a place the set's order decides.  entity_type "" *)
(* stands for None: the code tests its truth value.                        *)
find_nearby(objs, g, p, r, entity_type) ==
  LET cand == Candidates(g, SearchBounds(p, r))
  IN  IF \E i \in cand : i \notin DOMAIN objs
        THEN [kind |-> "raise"]
        ELSE [kind |-> "list",
              val |-> {objs[i] : i \in
                        {j \in cand :
                           /\ ~(entity_type # "" /\ objs[j].entity_type # entity_type)
                           /\ WithinRadius(p, objs[j].position, r)}}]

(* The box find_placement and procedural_placement build around a position *)
CandidateBox(p, size) ==
  [min |-> VecSub(p, Vec(size.x \div 2, 0, size.z \div 2)),
   max |-> VecAdd(p, Vec(size.x \div 2, size.y, size.z \div 2))]

(* The positions one attempt of find_placement can draw.  height_range and *)
(* max_distance are <<>> for None.                                         *)
Draws(rule) ==
  {Vec(px, py, pz) :
     px \in GridBounds.min.x..GridBounds.max.x,
     py \in (IF rule.height_range # <<>>
               THEN rule.height_range[1]..rule.height_range[2]
               ELSE GridBounds.min.y..GridBounds.max.y),
     pz \in GridBounds.min.z..GridBounds.max.z}

(* One attempt of find_placement with position p drawn: what the body of   *)
(* the loop can do                                                         *)
TryPosition(objs, g, p, size, rule) ==
  LET cc == check_collision(objs, g, CandidateBox(p, size), {})
      near == find_nearby(objs, g, p, rule.min_distance, "")
      far == find_nearby(objs, g, p, rule.max_distance[1], "")
      afterMax ==
        IF rule.max_distance # <<>>
          THEN IF far.kind = "raise" THEN "KeyError"
               ELSE IF far.val = {} THEN "continue" ELSE "return"
          ELSE "return"
      afterMin ==
        IF rule.min_distance > 0
          THEN IF near.kind = "raise" THEN "KeyError"
               ELSE IF near.val # {} THEN "continue" ELSE afterMax
          ELSE afterMax
  IN  (IF "KeyError" \in cc THEN {"KeyError"} ELSE {})
        \cup (IF "True" \in cc THEN {"continue"} ELSE {})
        \cup (IF "False" \in cc THEN {afterMin} ELSE {})

(* One pass through the body of find_placement's loop, when the attempts   *)
(* after it end in one of `after`; try[p] is what the attempt that draws p *)
(* can do in the state of the call, which the loop does not change         *)
OneAttempt(try, after) ==
  UNION {UNION {IF t = "return" THEN {[kind |-> "pos", val |-> p]}
                ELSE IF t = "continue" THEN after
                ELSE {[kind |-> "raise"]} : t \in try[p]}
         : p \in DOMAIN try}

(* for _ in range(n), followed by `after`.  Once a pass adds no result the *)
(* passes before it add none either.                                       *)
RECURSIVE Attempts(_, _, _)
Attempts(try, n, after) ==
  IF n <= 0 THEN after
  ELSE LET before == OneAttempt(try, after)
       IN  IF before = after THEN after ELSE Attempts(try, n - 1, before)

(* find_placement: the results over all sequences of draws; the loop falls *)
(* through to return None                                                  *)
find_placement(objs, g, size, rule, max_attempts) ==
  Attempts([p \in Draws(rule) |-> TryPosition(objs, g, p, size, rule)],
           max_attempts, {[kind |-> "none"]})

(* f"{i:04d}" *)
Digit(d) ==
  CASE d = 0 -> "0" [] d = 1 -> "1" [] d = 2 -> "2" [] d = 3 -> "3" [] d = 4 -> "4"
    [] d = 5 -> "5" [] d = 6 -> "6" [] d = 7 -> "7" [] d = 8 -> "8" [] d = 9 -> "9"

RECURSIVE Decimal(_)
Decimal(i) == IF i < 10 THEN Digit(i) ELSE Decimal(i \div 10) \o Digit(i % 10)

RECURSIVE ZeroPad(_, _)
ZeroPad(s, width) == IF Len(s) >= width THEN s ELSE ZeroPad("0" \o s, width)

(* f"{entity_type}_{i:04d}" *)
EntityId(entity_type, i) == entity_type \o "_" \o ZeroPad(Decimal(i), 4)

(* procedural_placement from index i on; acc holds the grid so far, the    *)
(* list placed and the indices attempted.  The outcomes are [objects,      *)
(* grid, ret]; a KeyError leaves the loop with what was added before it.   *)
RECURSIVE PlaceFrom(_, _, _, _, _, _)
PlaceFrom(acc, entity_type, count, size, rule, i) ==
  IF i >= count
    THEN {[objects |-> acc.objects, grid |-> acc.grid,
           ret |-> [kind |-> "list", val |-> acc.placed, attempted |-> acc.attempted]]}
    ELSE
      LET att == Append(acc.attempted, i)
          raised(o, g) == [objects |-> o, grid |-> g,
                           ret |-> [kind |-> "raise", attempted |-> att]]
          made(position) ==
            [id |-> EntityId(entity_type, i),
             entity_type |-> entity_type,
             position |-> position,
             bounds |-> CandidateBox(position, size),
             metadata |-> [rule |-> rule.name, biome |-> rule.biome]]
      IN  UNION {
            IF fp.kind = "raise" THEN {raised(acc.objects, acc.grid)}
            ELSE IF fp.kind = "none"
              THEN PlaceFrom([acc EXCEPT !.attempted = att],
                             entity_type, count, size, rule, i + 1)
            ELSE UNION {
                   IF a.ret.kind = "raise" THEN {raised(a.objects, a.grid)}
                   ELSE PlaceFrom([objects |-> a.objects, grid |-> a.grid,
                                   placed |-> IF a.ret.val
                                                THEN Append(acc.placed, made(fp.val))
                                                ELSE acc.placed,
                                   attempted |-> att],
                                  entity_type, count, size, rule, i + 1)
                   : a \in add_object(acc.objects, acc.grid, made(fp.val))}
            : fp \in find_placement(acc.objects, acc.grid, size, rule, DefaultMaxAttempts)}

procedural_placement(objs, g, entity_type, count, size, rule) ==
  PlaceFrom([objects |-> objs, grid |-> g, placed |-> <<>>, attempted |-> <<>>],
            entity_type, count, size, rule, 0)

get_stats(objs, g) ==
  [total_objects |-> Cardinality(DOMAIN objs),
   grid_cells_used |-> Cardinality(DOMAIN g),
   bounds |-> GridBounds,
   cell_size |-> cell_size]

(* The buckets after a read has walked the cells with                      *)
(* self.grid.setdefault(cell, []): every cell asked for has a bucket       *)
LookUpCells_creating(g, cells) ==
  [c \in DOMAIN g \cup cells |-> IF c \in DOMAIN g THEN g[c] ELSE <<>>]

(* The buckets after a read has walked the cells: `if cell in self.grid`   *)
(* tests the key and self.grid[cell] reads a bucket that is there, so no   *)
(* key is added                                                            *)
LookUpCells(g, cells) == [c \in DOMAIN g |-> g[c]]

(* The cells the attempts of find_placement look up: those of the          *)
(* candidate box of a draw and of the cubes searched around it             *)
PlacementCells(size, rule) ==
  UNION {_get_cells(CandidateBox(p, size))
           \cup _get_cells(SearchBounds(p, rule.min_distance))
           \cup (IF rule.max_distance # <<>>
                   THEN _get_cells(SearchBounds(p, rule.max_distance[1])) ELSE {})
         : p \in Draws(rule)}

---------------------------------------------------------------------------
(* The calls made on the grid *)

Origin == Vec(0, 0, 0)

(* Boxes submitted to add_object and check_collision: min <= max on every  *)
(* axis, as BoundingBox asks of its callers                                *)
XSpans == {s \in (0..MaxCoord) \X (0..MaxCoord) : s[1] <= s[2]}

InputBoxes == {[min |-> Vec(s[1], 0, 0), max |-> Vec(s[2], 0, 0)] : s \in XSpans}

InputIds == {"a", "b"}

(* No add_object call of the id is under way *)
Idle == [pc |-> "idle"]

TypeOfInput(id) == IF id = "a" THEN "u" ELSE "t"

(* PlacedObject leaves position and bounds unrelated: a caller may pass a  *)
(* position inside the bounds or not (here the caller of id "a" does)      *)
InputPositions(i, b) == IF i = "a" THEN {b.min, Origin} ELSE {b.min}

InputObjects ==
  UNION {{[id |-> i, entity_type |-> TypeOfInput(i), position |-> p, bounds |-> b,
           metadata |-> EmptyMap] : p \in InputPositions(i, b)}
         : <<i, b>> \in InputIds \X InputBoxes}

InputPoints == {Vec(px, 0, 0) : px \in 0..MaxCoord}

InputSizes == {Vec(0, 0, 0), Vec(2, 0, 0)}

Rule(mn, mx, hr) ==
  [name |-> "r", biome |-> "forest", min_distance |-> mn, max_distance |-> mx,
   height_range |-> hr]

InputRules ==
  {Rule(0, <<>>, <<>>), Rule(1, <<>>, <<>>), Rule(0, <<1>>, <<>>), Rule(1, <<2>>, <<1, 1>>)}

InputTypes == {"t"}

(* The number of ids the buckets list *)
Entries(g) == Cardinality(UNION {{<<c, k>> : k \in 1..Len(g[c])} : c \in DOMAIN g})

BucketsBounded(g) == Entries(g) <= MaxEntries

AddObject(obj) ==
  /\ \E a \in add_object(objects, grid, obj) :
       /\ BucketsBounded(a.grid)
       /\ objects' = a.objects
       /\ grid' = a.grid
       /\ ret' = a.ret
  /\ op' = "add_object"
  /\ UNCHANGED <<kgVars, lvlVars, callVars>>

RemoveObject(id) ==
  /\ LET r == remove_object(objects, grid, id)
     IN  /\ objects' = r.objects
         /\ grid' = r.grid
         /\ ret' = r.ret
  /\ op' = "remove_object"
  /\ UNCHANGED <<kgVars, lvlVars, callVars>>

ProceduralPlacement(entity_type, count, size, rule) ==
  /\ \E a \in procedural_placement(objects, grid, entity_type, count, size, rule) :
       /\ BucketsBounded(a.grid)
       /\ objects' = a.objects
       /\ grid' = a.grid
       /\ ret' = a.ret
  /\ op' = "procedural_placement"
  /\ UNCHANGED <<kgVars, lvlVars, callVars>>

CheckCollision(b, exclude) ==
  /\ \E c \in check_collision(objects, grid, b, exclude) :
       ret' = IF c = "KeyError" THEN [kind |-> "raise"]
              ELSE [kind |-> "bool", val |-> (c = "True")]
  /\ op' = "check_collision"
  /\ objects' = objects
  /\ grid' = LookUpCells(grid, _get_cells(b))
  /\ UNCHANGED <<kgVars, lvlVars, callVars>>

FindNearby(p, r, entity_type) ==
  /\ ret' = find_nearby(objects, grid, p, r, entity_type)
  /\ op' = "find_nearby"
  /\ objects' = objects
  /\ grid' = LookUpCells(grid, _get_cells(SearchBounds(p, r)))
  /\ UNCHANGED <<kgVars, lvlVars, callVars>>

FindPlacement(size, rule, max_attempts) ==
  /\ ret' \in find_placement(objects, grid, size, rule, max_attempts)
  /\ op' = "find_placement"
  /\ objects' = objects
  /\ grid' = LookUpCells(grid, IF max_attempts > 0 THEN PlacementCells(size, rule) ELSE {})
  /\ UNCHANGED <<kgVars, lvlVars, callVars>>

GetStats ==
  /\ ret' = [kind |-> "stats", val |-> get_stats(objects, grid)]
  /\ op' = "get_stats"
  /\ UNCHANGED <<gridVars, kgVars, lvlVars, callVars>>

Init ==
  /\ objects = EmptyMap
  /\ grid = EmptyMap
  /\ triplets = <<>>
  /\ subject_index = EmptyMap
  /\ object_index = EmptyMap
  /\ predicate_index = EmptyMap
  /\ leveling = <<>>
  /\ calls = [i \in InputIds \cup {"find_placement"} |-> Idle]
  /\ op = "init"
  /\ ret = [kind |-> "none"]

GridNext ==
  \/ \E obj \in InputObjects : AddObject(obj)
  \/ \E id \in InputIds \cup {EntityId(t, i) : t \in InputTypes, i \in 0..1} :
       RemoveObject(id)
  \/ \E t \in InputTypes, n \in 0..MaxCount, size \in InputSizes, rule \in InputRules :
       ProceduralPlacement(t, n, size, rule)

ReadNext ==
  \/ \E b \in InputBoxes, ex \in {{}} \cup {{i} : i \in InputIds} : CheckCollision(b, ex)
  \/ \E p \in InputPoints, r \in 0..MaxRadius, t \in {"", "t"} : FindNearby(p, r, t)
  \/ \E size \in InputSizes, rule \in InputRules, n \in 0..MaxAttempts :
       FindPlacement(size, rule, n)
  \/ GetStats

(* The grid under its writers *)
SpecGrid == Init /\ [][GridNext]_vars

---------------------------------------------------------------------------
(* Properties of the SpatialGrid *)

Placed == DOMAIN objects

(* How many times id is listed in the bucket of cell c *)
Listed(g, c, id) ==
  IF c \in DOMAIN g THEN Cardinality({k \in 1..Len(g[c]) : g[c][k] = id}) ELSE 0

(* Every id some bucket lists *)
ListedIds(g) == UNION {Range(g[c]) : c \in DOMAIN g}

(* Cell c lies in the cell range floor(min / cell_size)..floor(max / cell_size) of b *)
InCellRange(c, b) ==
  /\ b.min.x \div cell_size <= c[1] /\ c[1] <= b.max.x \div cell_size
  /\ b.min.y \div cell_size <= c[2] /\ c[2] <= b.max.y \div cell_size
  /\ b.min.z \div cell_size <= c[3] /\ c[3] <= b.max.z \div cell_size

(* The cells any box of the model can reach *)
AllCells == (-2..(MaxCoord + 2)) \X (-2..2) \X (-2..2)

C2_BucketsDerivedFromObjects ==
  /\ \A c \in AllCells \cup DOMAIN grid : \A id \in ListedIds(grid) \cup Placed :
       Listed(grid, c, id) =
         (IF id \in Placed /\ InCellRange(c, objects[id].bounds) THEN 1 ELSE 0)
  /\ \A c \in DOMAIN grid : grid[c] # <<>>

(* The placed objects whose position is within distance r of p *)
TrulyNearby(p, r) == {objects[i] : i \in {j \in Placed : WithinRadius(p, objects[j].position, r)}}

(* C3: find_nearby(p, r) returns exactly the placed objects whose position *)
(* is within distance r of p, and with entity_type given those of them of  *)
(* that type.                                                              *)
C3_FindNearbyExact ==
  \A p \in InputPoints : \A r \in 0..MaxRadius :
    /\ find_nearby(objects, grid, p, r, "") = [kind |-> "list", val |-> TrulyNearby(p, r)]
    /\ \A t \in {"t", "u"} :
         find_nearby(objects, grid, p, r, t) =
           [kind |-> "list", val |-> {o \in TrulyNearby(p, r) : o.entity_type = t}]

(* The scan over all placed objects *)
BruteForceCollision(b, exclude) ==
  \E i \in Placed \ exclude : intersects(b, objects[i].bounds)

(* C4: check_collision(b, exclude_id) completes without a lookup failure   *)
(* and returns true iff a scan over all placed objects finds one, other    *)
(* than exclude_id, whose bounds intersect b.                              *)
C4_CheckCollisionIsBruteForce ==
  \A b \in InputBoxes : \A ex \in {{}} \cup {{i} : i \in InputIds} :
    check_collision(objects, grid, b, ex) =
      {IF BruteForceCollision(b, ex) THEN "True" ELSE "False"}

(* C5: for o whose id is not placed, if add_object(o) returns true then    *)
(* remove_object(o.id) returns true and gives back the state before the    *)
(* add: the same objects, bucket keys and order in every bucket.           *)
C5_AddThenRemoveRestores ==
  \A o \in InputObjects :
    o.id \notin Placed =>
      \A a \in add_object(objects, grid, o) :
        (a.ret.kind = "bool" /\ a.ret.val) =>
          LET r == remove_object(a.objects, a.grid, o.id)
          IN  /\ r.ret = [kind |-> "bool", val |-> TRUE]
              /\ r.objects = objects
              /\ DOMAIN r.grid = DOMAIN grid
              /\ r.grid = grid

(* The box the claim describes for position p and size *)
ClaimedBox(p, size) ==
  [min |-> Vec(p.x - size.x \div 2, p.y, p.z - size.z \div 2),
   max |-> Vec(p.x + size.x \div 2, p.y + size.y, p.z + size.z \div 2)]

(* C6: a position p returned by find_placement has a candidate box that    *)
(* intersects no placed object's bounds, has no placed object's position   *)
(* within min_distance (when min_distance > 0) and some placed object's    *)
(* position within max_distance (when set), so none is returned on a grid  *)
(* with no objects and max_distance set; p.x and p.z lie within the grid   *)
(* bounds and p.y within height_range, or else the grid's y-range.         *)
C6_FoundPlacementIsValid ==
  \A size \in InputSizes : \A rule \in InputRules :
    \A n \in (0..MaxAttempts) \cup {DefaultMaxAttempts} :
      \A out \in find_placement(objects, grid, size, rule, n) :
        out.kind = "pos" =>
          LET p == out.val
          IN  /\ \A i \in Placed : ~intersects(ClaimedBox(p, size), objects[i].bounds)
              /\ rule.min_distance > 0 =>
                   \A i \in Placed : ~WithinRadius(p, objects[i].position, rule.min_distance)
              /\ rule.max_distance # <<>> =>
                   \E i \in Placed : WithinRadius(p, objects[i].position, rule.max_distance[1])
              /\ (rule.max_distance # <<>> => Placed # {})
              /\ GridBounds.min.x <= p.x /\ p.x <= GridBounds.max.x
              /\ GridBounds.min.z <= p.z /\ p.z <= GridBounds.max.z
              /\ IF rule.height_range # <<>>
                   THEN rule.height_range[1] <= p.y /\ p.y <= rule.height_range[2]
                   ELSE GridBounds.min.y <= p.y /\ p.y <= GridBounds.max.y

(* How many times the buckets list id in all *)
ListedInAll(g, id) ==
  Cardinality(UNION {{<<c, k>> : k \in {j \in 1..Len(g[c]) : g[c][j] = id}} : c \in DOMAIN g})

(* C7: procedural_placement attempts every index 0..count-1 in increasing  *)
(* order and returns, in index order, exactly the objects it added, each   *)
(* with id "{entity_type}_{i:04d}", the position found and the bounds      *)
(* built from it and size; the list is no longer than count and every      *)
(* object of it is in the objects map.                                     *)
C7_ProceduralPlacementReturnsAdded ==
  \A t \in InputTypes : \A n \in 0..MaxCount : \A size \in InputSizes :
    \A rule \in InputRules :
      \A out \in procedural_placement(objects, grid, t, n, size, rule) :
        LET got == out.ret.val
        IN  /\ out.ret.kind = "list"
            /\ out.ret.attempted = [k \in 1..n |-> k - 1]
            /\ Len(got) <= n
            /\ \A k \in 1..Len(got) :
                 /\ \E i \in 0..(n - 1) : got[k].id = EntityId(t, i)
                 /\ got[k].bounds = ClaimedBox(got[k].position, size)
                 /\ got[k].id \in DOMAIN out.objects
                 /\ out.objects[got[k].id] = got[k]
            /\ \A k \in 1..(Len(got) - 1) :
                 \E i \in 0..(n - 1) : \E j \in (i + 1)..(n - 1) :
                   got[k].id = EntityId(t, i) /\ got[k + 1].id = EntityId(t, j)
            /\ {got[k].id : k \in 1..Len(got)} =
                 {i \in ListedIds(out.grid) : ListedInAll(out.grid, i) > ListedInAll(grid, i)}

---------------------------------------------------------------------------
(* KnowledgeGraph.  A Triplet is an object: the list and the indexes hold  *)
(* references to it, and remove_entity tells objects apart by id().  The   *)
(* field ident stands for that identity; two entries with one ident are    *)
(* the same object, passed to add_triplet twice.                           *)

(* f"{type}:{id}" *)
EntityKey(e) == e.type \o ":" \o e.id

SameEntity(a, b) == a.type = b.type /\ a.id = b.id

(* dict.get(key, []) *)
GetOrEmpty(d, k) == IF k \in DOMAIN d THEN d[k] ELSE <<>>

(* The index after index.setdefault(key, []) *)
IndexGet_setdefault(index, key) ==
  IF key \in DOMAIN index THEN index ELSE Put(index, key, <<>>)

(* The index after index.get(key, []): the default is returned, not stored *)
IndexGet(index, key) == [k \in DOMAIN index |-> index[k]]

(* if key not in index: index[key] = []; index[key].append(t) *)
IndexAppend(index, key, t) == Put(index, key, Append(GetOrEmpty(index, key), t))

EmptyGraph ==
  [triplets |-> <<>>, subject_index |-> EmptyMap, object_index |-> EmptyMap,
   predicate_index |-> EmptyMap]

(* add_triplet that forgets the object index *)
add_triplet_without_object_index(G, t) ==
  [triplets |-> Append(G.triplets, t),
   subject_index |-> IndexAppend(G.subject_index, EntityKey(t.subject), t),
   object_index |-> G.object_index,
   predicate_index |-> IndexAppend(G.predicate_index, t.predicate, t)]

add_triplet(G, t) ==
  [triplets |-> Append(G.triplets, t),
   subject_index |-> IndexAppend(G.subject_index, EntityKey(t.subject), t),
   object_index |-> IndexAppend(G.object_index, EntityKey(t.object), t),
   predicate_index |-> IndexAppend(G.predicate_index, t.predicate, t)]

(* The loop of _rebuild_indexes over the list, the indexes so far in G *)
RECURSIVE RebuildFrom(_, _)
RebuildFrom(G, rest) ==
  IF rest = <<>> THEN G
  ELSE RebuildFrom(
         [G EXCEPT
            !.subject_index = IndexAppend(@, EntityKey(Head(rest).subject), Head(rest)),
            !.object_index = IndexAppend(@, EntityKey(Head(rest).object), Head(rest)),
            !.predicate_index = IndexAppend(@, Head(rest).predicate, Head(rest))],
         Tail(rest))

_rebuild_indexes(list) == RebuildFrom([EmptyGraph EXCEPT !.triplets = list], list)

(* find that takes the bucket of the subject index for the triplets of the *)
(* subject, without the filter on subject type and id                      *)
find_trusting_subject_index(G, subject, predicate, object) ==
  LET usePredicate == predicate # <<>> /\ predicate[1] # ""
      candidates ==
        IF subject # <<>> THEN GetOrEmpty(G.subject_index, EntityKey(subject[1]))
        ELSE IF object # <<>> THEN GetOrEmpty(G.object_index, EntityKey(object[1]))
        ELSE IF usePredicate THEN GetOrEmpty(G.predicate_index, predicate[1])
        ELSE G.triplets
      keep(t) ==
        /\ ~(usePredicate /\ t.predicate # predicate[1])
        /\ ~(object # <<>> /\ (t.object.type # object[1].type \/ t.object.id # object[1].id))
  IN  SelectSeq(candidates, keep)

(* find: subject, predicate and object are <<>> for None and <<v>> for v.   *)
(* `if subject` holds for every EntityReference; `if predicate` fails for  *)
(* the empty string as it does for None.                                   *)
find(G, subject, predicate, object) ==
  LET usePredicate == predicate # <<>> /\ predicate[1] # ""
      candidates ==
        IF subject # <<>> THEN GetOrEmpty(G.subject_index, EntityKey(subject[1]))
        ELSE IF object # <<>> THEN GetOrEmpty(G.object_index, EntityKey(object[1]))
        ELSE IF usePredicate THEN GetOrEmpty(G.predicate_index, predicate[1])
        ELSE G.triplets
      keep(t) ==
        /\ ~(subject # <<>> /\ (t.subject.type # subject[1].type \/ t.subject.id # subject[1].id))
        /\ ~(usePredicate /\ t.predicate # predicate[1])
        /\ ~(object # <<>> /\ (t.object.type # object[1].type \/ t.object.id # object[1].id))
  IN  SelectSeq(candidates, keep)

(* The graph after find: the one index it takes its candidates from has   *)
(* been looked up                                                          *)
GraphAfterFind(G, subject, predicate, object) ==
  IF subject # <<>>
    THEN [G EXCEPT !.subject_index = IndexGet(@, EntityKey(subject[1]))]
  ELSE IF object # <<>>
    THEN [G EXCEPT !.object_index = IndexGet(@, EntityKey(object[1]))]
  ELSE IF predicate # <<>> /\ predicate[1] # ""
    THEN [G EXCEPT !.predicate_index = IndexGet(@, predicate[1])]
  ELSE G

(* The graph after get_related: one find for a direction, two for "both" *)
GraphAfterGetRelated(G, entity, predicate, direction) ==
  IF direction = "outgoing" THEN GraphAfterFind(G, <<entity>>, predicate, <<>>)
  ELSE IF direction = "incoming" THEN GraphAfterFind(G, <<>>, predicate, <<entity>>)
  ELSE GraphAfterFind(GraphAfterFind(G, <<entity>>, predicate, <<>>),
                      <<>>, predicate, <<entity>>)

(* [f(t) for t in list] *)
MapSeq(list, f(_)) == [k \in 1..Len(list) |-> f(list[k])]

(* get_related that takes the object side for "incoming" too *)
get_related_object_side_only(G, entity, predicate, direction) ==
  LET obj(t) == t.object
  IN  IF direction = "outgoing" THEN MapSeq(find(G, <<entity>>, predicate, <<>>), obj)
      ELSE IF direction = "incoming" THEN MapSeq(find(G, <<>>, predicate, <<entity>>), obj)
      ELSE MapSeq(find(G, <<entity>>, predicate, <<>>), obj)
             \o MapSeq(find(G, <<>>, predicate, <<entity>>), obj)

get_related(G, entity, predicate, direction) ==
  LET obj(t) == t.object
      subj(t) == t.subject
  IN  IF direction = "outgoing" THEN MapSeq(find(G, <<entity>>, predicate, <<>>), obj)
      ELSE IF direction = "incoming" THEN MapSeq(find(G, <<>>, predicate, <<entity>>), subj)
      ELSE MapSeq(find(G, <<entity>>, predicate, <<>>), obj)
             \o MapSeq(find(G, <<>>, predicate, <<entity>>), subj)

(* get_relationship that takes the last match *)
get_relationship_last_match(G, subject, object) ==
  LET found == find(G, <<subject>>, <<>>, <<object>>)
  IN  IF found # <<>> THEN <<found[Len(found)]>> ELSE <<>>

(* <<>> for None, <<t>> for the triplet *)
get_relationship(G, subject, object) ==
  LET found == find(G, <<subject>>, <<>>, <<object>>)
  IN  IF found # <<>> THEN <<found[1]>> ELSE <<>>

(* remove_entity: [graph, ret]; to_remove is a set of id()s *)
remove_entity(G, entity) ==
  LET hit(t) == \/ (t.subject.type = entity.type /\ t.subject.id = entity.id)
                \/ (t.object.type = entity.type /\ t.object.id = entity.id)
      to_remove == {G.triplets[k].ident : k \in {j \in 1..Len(G.triplets) : hit(G.triplets[j])}}
      stays(t) == t.ident \notin to_remove
  IN  [graph |-> _rebuild_indexes(SelectSeq(G.triplets, stays)),
       ret |-> Cardinality(to_remove)]

stats(G) ==
  LET ts == Range(G.triplets)
      preds == {t.predicate : t \in ts}
  IN  [triplets |-> Len(G.triplets),
       entities |-> Cardinality({EntityKey(t.subject) : t \in ts}
                                  \cup {EntityKey(t.object) : t \in ts}),
       entity_types |-> Cardinality({t.subject.type : t \in ts} \cup {t.object.type : t \in ts}),
       relationship_types |-> Cardinality(preds),
       predicates |-> preds]

(* RelationMetadata made from the dict d: the fields d gives, the others   *)
(* at their default.                                                       *)
(* None is <<>> and a value v is <<v>>; of the eleven fields the model     *)
(* keeps optional and weight (default None) and custom (default {}).       *)
RelationMetadataOf(d) ==
  [optional |-> IF "optional" \in DOMAIN d THEN d.optional ELSE <<>>,
   weight |-> IF "weight" \in DOMAIN d THEN d.weight ELSE <<>>,
   custom |-> IF "custom" \in DOMAIN d THEN d.custom ELSE <<EmptyMap>>]

(* RelationMetadata.model_dump(): a dict with every field *)
DumpMetadata(m) == [optional |-> m.optional, weight |-> m.weight, custom |-> m.custom]

(* model_dump that leaves the metadata out *)
Dump_without_metadata(t) ==
  [subject |-> [type |-> t.subject.type, id |-> t.subject.id],
   predicate |-> t.predicate,
   object |-> [type |-> t.object.type, id |-> t.object.id],
   metadata |-> <<>>]

(* Triplet.model_dump(): the fields of the triplet as dicts, without the   *)
(* identity of the object                                                  *)
Dump(t) ==
  [subject |-> [type |-> t.subject.type, id |-> t.subject.id],
   predicate |-> t.predicate,
   object |-> [type |-> t.object.type, id |-> t.object.id],
   metadata |-> IF t.metadata = <<>> THEN <<>> ELSE <<DumpMetadata(t.metadata[1])>>]

export(G) == MapSeq(G.triplets, Dump)

(* The id() of a Triplet object made now: one no triplet of the list has *)
FreshIdent(list) ==
  CHOOSE n \in 1..(Len(list) + 1) :
    /\ \A k \in 1..Len(list) : list[k].ident # n
    /\ \A m \in 1..(n - 1) : \E k \in 1..Len(list) : list[k].ident = m

(* The Triplet the constructor makes from the fields of the dict item *)
MakeTriplet(item, ident) ==
  [ident |-> ident,
   subject |-> [type |-> item.subject.type, id |-> item.subject.id],
   predicate |-> item.predicate,
   object |-> [type |-> item.object.type, id |-> item.object.id],
   metadata |-> IF item.metadata = <<>> THEN <<>>
                ELSE <<RelationMetadataOf(item.metadata[1])>>]

RECURSIVE import_triplets(_, _)
import_triplets(G, data) ==
  IF data = <<>> THEN G
  ELSE import_triplets(add_triplet(G, MakeTriplet(Head(data), FreshIdent(G.triplets))),
                       Tail(data))

---------------------------------------------------------------------------
(* The calls made on the graph *)

MaxTriplets == 3    \* add_triplet and import_triplets keep the list this short
MaxImport == 2      \* import_triplets: at most this many records

Graph ==
  [triplets |-> triplets, subject_index |-> subject_index,
   object_index |-> object_index, predicate_index |-> predicate_index]

Ref(t, i) == [type |-> t, id |-> i]

(* The first two have one key, "N:x:1" *)
InputEntities == {Ref("N", "x:1"), Ref("N:x", "1"), Ref("Q", "1")}

InputPredicates == {"", "p", "q"}

(* metadata is <<>> for None, <<d>> for the dict d of the fields given *)
Item(s, p, o, m) == [subject |-> s, predicate |-> p, object |-> o, metadata |-> m]

InputItems ==
  {Item(Ref("N", "x:1"), "p", Ref("N", "x:1"), <<>>),
   Item(Ref("N", "x:1"), "p", Ref("Q", "1"), <<[weight |-> <<1>>]>>),
   Item(Ref("N", "x:1"), "q", Ref("Q", "1"), <<>>),
   Item(Ref("N:x", "1"), "q", Ref("N", "x:1"), <<>>),
   Item(Ref("Q", "1"), "", Ref("N:x", "1"), <<>>),
   Item(Ref("Q", "1"), "p", Ref("N", "x:1"), <<>>)}

Optional(S) == {<<>>} \cup {<<v>> : v \in S}

SetGraph(G) ==
  /\ triplets' = G.triplets
  /\ subject_index' = G.subject_index
  /\ object_index' = G.object_index
  /\ predicate_index' = G.predicate_index

(* add_triplet with a Triplet object made for the call *)
AddTriplet(item) ==
  /\ Len(triplets) < MaxTriplets
  /\ SetGraph(add_triplet(Graph, MakeTriplet(item, FreshIdent(triplets))))
  /\ op' = "add_triplet"
  /\ ret' = [kind |-> "none"]
  /\ UNCHANGED <<gridVars, lvlVars, callVars>>

(* add_triplet with a Triplet object the list holds already *)
AddTripletAgain(k) ==
  /\ Len(triplets) < MaxTriplets
  /\ k \in 1..Len(triplets)
  /\ SetGraph(add_triplet(Graph, triplets[k]))
  /\ op' = "add_triplet"
  /\ ret' = [kind |-> "none"]
  /\ UNCHANGED <<gridVars, lvlVars, callVars>>

ImportTriplets(data) ==
  /\ Len(triplets) + Len(data) <= MaxTriplets
  /\ SetGraph(import_triplets(Graph, data))
  /\ op' = "import_triplets"
  /\ ret' = [kind |-> "none"]
  /\ UNCHANGED <<gridVars, lvlVars, callVars>>

(* id() gives addresses, which the program only compares: the state keeps *)
(* the objects of G numbered in the order of their first place in the list *)
Renumbered(G) ==
  LET list == G.triplets
      first(i) == CHOOSE k \in 1..Len(list) :
                    list[k].ident = i /\ \A j \in 1..(k - 1) : list[j].ident # i
      firsts == {first(list[k].ident) : k \in 1..Len(list)}
      rank(i) == Cardinality({k \in firsts : k <= first(i)})
      renamed(l) == [k \in 1..Len(l) |-> [l[k] EXCEPT !.ident = rank(@)]]
  IN  [triplets |-> renamed(list),
       subject_index |-> [key \in DOMAIN G.subject_index |-> renamed(G.subject_index[key])],
       object_index |-> [key \in DOMAIN G.object_index |-> renamed(G.object_index[key])],
       predicate_index |->
         [key \in DOMAIN G.predicate_index |-> renamed(G.predicate_index[key])]]

RemoveEntity(entity) ==
  /\ LET r == remove_entity(Graph, entity)
     IN  /\ SetGraph(Renumbered(r.graph))
         /\ ret' = [kind |-> "int", val |-> r.ret]
  /\ op' = "remove_entity"
  /\ UNCHANGED <<gridVars, lvlVars, callVars>>

Find(subject, predicate, object) ==
  /\ ret' = [kind |-> "list", val |-> find(Graph, subject, predicate, object)]
  /\ op' = "find"
  /\ SetGraph(GraphAfterFind(Graph, subject, predicate, object))
  /\ UNCHANGED <<gridVars, lvlVars, callVars>>

InputData == UNION {[1..n -> InputItems] : n \in 0..MaxImport}

KGNext ==
  \/ \E item \in InputItems : AddTriplet(item)
  \/ \E k \in 1..MaxTriplets : AddTripletAgain(k)
  \/ \E data \in InputData : ImportTriplets(data)
  \/ \E e \in InputEntities : RemoveEntity(e)
  \/ \E s \in Optional(InputEntities), p \in Optional(InputPredicates),
        o \in Optional(InputEntities) : Find(s, p, o)

(* The graph under its writers and find *)
SpecKG == Init /\ [][KGNext]_vars

---------------------------------------------------------------------------
(* Properties of the KnowledgeGraph *)

(* The index of list by keyOf, made from the list alone: every key of the  *)
(* list, with the triplets of that key in list order                       *)
IndexFromScratch(list, keyOf(_)) ==
  [key \in {keyOf(list[k]) : k \in 1..Len(list)} |->
     LET has(t) == keyOf(t) = key IN SelectSeq(list, has)]

SubjectKey(t) == t.subject.type \o ":" \o t.subject.id
ObjectKey(t) == t.object.type \o ":" \o t.object.id
PredicateKey(t) == t.predicate

(* C8: each of the three indexes equals the index made from scratch from   *)
(* the triplet list: each key maps to exactly the triplets of that key, in *)
(* list order, and no bucket is empty.                                     *)
C8_IndexesDerivedFromList ==
  /\ subject_index = IndexFromScratch(triplets, SubjectKey)
  /\ object_index = IndexFromScratch(triplets, ObjectKey)
  /\ predicate_index = IndexFromScratch(triplets, PredicateKey)
  /\ \A key \in DOMAIN subject_index : subject_index[key] # <<>>
  /\ \A key \in DOMAIN object_index : object_index[key] # <<>>
  /\ \A key \in DOMAIN predicate_index : predicate_index[key] # <<>>

(* Two entities share a bucket of the subject index *)
SubjectKeysCollide ==
  \E key \in DOMAIN subject_index :
    \E k1, k2 \in 1..Len(subject_index[key]) :
      ~SameEntity(subject_index[key][k1].subject, subject_index[key][k2].subject)

(* C8 witness: remove_entity has removed triplets and rebuilt indexes that *)
(* still hold a bucket two entities share.                                 *)
C8_Witness ==
  /\ op = "remove_entity"
  /\ ret.val >= 1
  /\ triplets # <<>>
  /\ SubjectKeysCollide

(* The triplets of list that match every filter supplied *)
Matching(list, subject, predicate, object) ==
  LET ok(t) ==
        /\ subject # <<>> => (t.subject.type = subject[1].type /\ t.subject.id = subject[1].id)
        /\ predicate # <<>> => t.predicate = predicate[1]
        /\ object # <<>> => (t.object.type = object[1].type /\ t.object.id = object[1].id)
  IN  SelectSeq(list, ok)

InList(t, list) == \E k \in 1..Len(list) : list[k] = t

(* C9: for every combination of subject, non-empty predicate and object,   *)
(* find returns exactly the triplets of the list that match all supplied   *)
(* filters, in insertion order and with their multiplicity; every stored t *)
(* is in find(subject=t.subject), find(predicate=t.predicate) and          *)
(* find(object=t.object), and find() returns the whole list.               *)
C9_FindIsConjunctiveFilter ==
  /\ \A s \in Optional(InputEntities) : \A p \in Optional(InputPredicates \ {""}) :
       \A o \in Optional(InputEntities) :
         find(Graph, s, p, o) = Matching(triplets, s, p, o)
  /\ \A k \in 1..Len(triplets) :
       /\ InList(triplets[k], find(Graph, <<triplets[k].subject>>, <<>>, <<>>))
       /\ InList(triplets[k], find(Graph, <<>>, <<triplets[k].predicate>>, <<>>))
       /\ InList(triplets[k], find(Graph, <<>>, <<>>, <<triplets[k].object>>))
  /\ find(Graph, <<>>, <<>>, <<>>) = triplets

(* C9 witness: find has returned some but not all of the triplets of a     *)
(* graph in which two entities share a bucket of the subject index.        *)
C9_Witness ==
  /\ op = "find"
  /\ ret.val # <<>>
  /\ Len(ret.val) < Len(triplets)
  /\ SubjectKeysCollide

(* C10: remove_entity(e) leaves the list with exactly the triplets having  *)
(* e as subject or object removed and the others in their order; then      *)
(* find(subject=e) and find(object=e) are empty; and the number returned   *)
(* is the decrease of stats().triplets.                                    *)
C10_RemoveEntityCountsRemoved ==
  \A e \in InputEntities :
    LET r == remove_entity(Graph, e)
        other(t) == ~SameEntity(t.subject, e) /\ ~SameEntity(t.object, e)
    IN  /\ r.graph.triplets = SelectSeq(triplets, other)
        /\ find(r.graph, <<e>>, <<>>, <<>>) = <<>>
        /\ find(r.graph, <<>>, <<>>, <<e>>) = <<>>
        /\ r.ret = stats(Graph).triplets - stats(r.graph).triplets

---------------------------------------------------------------------------
(* The graph under its writers and the calls that read it through find *)

InputDirections == {"outgoing", "incoming", "both"}

GetRelated(entity, predicate, direction) ==
  /\ ret' = [kind |-> "list", val |-> get_related(Graph, entity, predicate, direction)]
  /\ op' = "get_related"
  /\ SetGraph(GraphAfterGetRelated(Graph, entity, predicate, direction))
  /\ UNCHANGED <<gridVars, lvlVars, callVars>>

GetRelationship(subject, object) ==
  /\ ret' = [kind |-> "optional", val |-> get_relationship(Graph, subject, object)]
  /\ op' = "get_relationship"
  /\ SetGraph(GraphAfterFind(Graph, <<subject>>, <<>>, <<object>>))
  /\ UNCHANGED <<gridVars, lvlVars, callVars>>

Export ==
  /\ ret' = [kind |-> "list", val |-> export(Graph)]
  /\ op' = "export"
  /\ UNCHANGED <<gridVars, kgVars, lvlVars, callVars>>

(* g2 = KnowledgeGraph(); g2.import_triplets(g.export()); g2 is the graph  *)
(* from here on                                                            *)
Reimport ==
  /\ SetGraph(import_triplets(EmptyGraph, export(Graph)))
  /\ op' = "reimport"
  /\ ret' = [kind |-> "none"]
  /\ UNCHANGED <<gridVars, lvlVars, callVars>>

(* g.import_triplets(g.export()) *)
ImportExported ==
  /\ 2 * Len(triplets) <= MaxTriplets
  /\ SetGraph(import_triplets(Graph, export(Graph)))
  /\ op' = "import_exported"
  /\ ret' = [kind |-> "none"]
  /\ UNCHANGED <<gridVars, lvlVars, callVars>>

KGReadNext ==
  \/ \E item \in InputItems : AddTriplet(item)
  \/ \E k \in 1..MaxTriplets : AddTripletAgain(k)
  \/ \E data \in InputData : ImportTriplets(data)
  \/ \E e \in InputEntities : RemoveEntity(e)
  \/ \E e \in InputEntities, p \in Optional(InputPredicates), d \in InputDirections :
       GetRelated(e, p, d)
  \/ \E s, o \in InputEntities : GetRelationship(s, o)
  \/ Export
  \/ Reimport
  \/ ImportExported

SpecKGRead == Init /\ [][KGReadNext]_vars

(* The sides of the triplets of list *)
ObjectsOf(list) == [k \in 1..Len(list) |-> list[k].object]
SubjectsOf(list) == [k \in 1..Len(list) |-> list[k].subject]

(* C11: for every entity e and optional non-empty predicate p,             *)
(* get_related(e, p, "outgoing") is the list of the objects of the         *)
(* triplets with subject e (and predicate p), in insertion order;          *)
(* "incoming" the list of the subjects of the triplets with object e;      *)
(* "both" the outgoing list followed by the incoming list, so that a       *)
(* triplet from e to e gives e twice; no other reference is returned.      *)
C11_GetRelatedSides ==
  \A e \in InputEntities : \A p \in Optional(InputPredicates \ {""}) :
    LET out == ObjectsOf(Matching(triplets, <<e>>, p, <<>>))
        inc == SubjectsOf(Matching(triplets, <<>>, p, <<e>>))
        loops == {k \in 1..Len(triplets) :
                    /\ SameEntity(triplets[k].subject, e)
                    /\ SameEntity(triplets[k].object, e)
                    /\ (p # <<>> => triplets[k].predicate = p[1])}
        both == get_related(Graph, e, p, "both")
    IN  /\ get_related(Graph, e, p, "outgoing") = out
        /\ get_related(Graph, e, p, "incoming") = inc
        /\ both = out \o inc
        /\ Cardinality({k \in 1..Len(both) : SameEntity(both[k], e)}) = 2 * Cardinality(loops)
        /\ \A k \in 1..Len(both) :
             \E j \in 1..Len(triplets) :
               \/ (SameEntity(triplets[j].subject, e) /\ both[k] = triplets[j].object)
               \/ (SameEntity(triplets[j].object, e) /\ both[k] = triplets[j].subject)

(* C11 witness: get_related has returned the "both" list of an entity that *)
(* has a triplet to itself and a triplet to another entity.                *)
C11_Witness ==
  /\ op = "get_related"
  /\ \E e \in InputEntities :
       /\ ret.val = get_related(Graph, e, <<>>, "both")
       /\ \E k \in 1..Len(triplets) :
            SameEntity(triplets[k].subject, e) /\ SameEntity(triplets[k].object, e)
       /\ \E k \in 1..Len(ret.val) : ~SameEntity(ret.val[k], e)
       /\ ret.val # get_related(Graph, e, <<>>, "outgoing")
       /\ ret.val # get_related(Graph, e, <<>>, "incoming")

(* The places of the list that hold a triplet from s to o *)
Relating(s, o) ==
  {k \in 1..Len(triplets) :
     SameEntity(triplets[k].subject, s) /\ SameEntity(triplets[k].object, o)}

(* C12: get_relationship(s, o) returns the first triplet of the list, the  *)
(* earliest added that is still in the graph, with subject s and object o, *)
(* whatever its predicate, and None exactly when the list has none.        *)
C12_GetRelationshipIsFirst ==
  \A s, o \in InputEntities :
    LET r == get_relationship(Graph, s, o)
    IN  /\ (r = <<>>) <=> (Relating(s, o) = {})
        /\ r # <<>> =>
             \E k \in Relating(s, o) :
               /\ r[1] = triplets[k]
               /\ \A j \in Relating(s, o) : k <= j

(* C12 witness: get_relationship has returned a triplet where the list has *)
(* two from s to o that differ, and the entities share an index bucket.    *)
C12_Witness ==
  /\ op = "get_relationship"
  /\ ret.val # <<>>
  /\ \E j, k \in Relating(ret.val[1].subject, ret.val[1].object) :
       j < k /\ triplets[j] # triplets[k] /\ ret.val[1] = triplets[j]
  /\ SubjectKeysCollide

(* The values of the triplets, without the identity of the objects *)
Values(list) ==
  [k \in 1..Len(list) |->
     [subject |-> list[k].subject, predicate |-> list[k].predicate,
      object |-> list[k].object, metadata |-> list[k].metadata]]

IndexesDerived(G) ==
  /\ G.subject_index = IndexFromScratch(G.triplets, SubjectKey)
  /\ G.object_index = IndexFromScratch(G.triplets, ObjectKey)
  /\ G.predicate_index = IndexFromScratch(G.triplets, PredicateKey)

(* C13: import_triplets(g.export()) on an empty graph gives a graph whose  *)
(* list equals g's in length, order and value, whose export() equals       *)
(* g.export() and whose indexes are those of its list; on a graph that is  *)
(* not empty it appends the imported triplets after the existing ones and  *)
(* leaves the existing ones as they are.                                   *)
C13_ExportImportRoundTrip ==
  /\ LET g2 == import_triplets(EmptyGraph, export(Graph))
     IN  /\ Len(g2.triplets) = Len(triplets)
         /\ Values(g2.triplets) = Values(triplets)
         /\ export(g2) = export(Graph)
         /\ IndexesDerived(g2)
  /\ \A H \in {Graph} \cup {remove_entity(Graph, e).graph : e \in InputEntities} :
       LET h2 == import_triplets(H, export(Graph))
       IN  /\ Len(h2.triplets) = Len(H.triplets) + Len(triplets)
           /\ SubSeq(h2.triplets, 1, Len(H.triplets)) = H.triplets
           /\ Values(SubSeq(h2.triplets, Len(H.triplets) + 1, Len(h2.triplets)))
                = Values(triplets)
           /\ IndexesDerived(h2)

(* C13 witness: the graph is the re-import of the export of a graph with   *)
(* metadata, with triplets of no metadata and with one triplet held twice. *)
C13_Witness ==
  /\ op = "reimport"
  /\ Len(triplets) >= 3
  /\ \E k \in 1..Len(triplets) : triplets[k].metadata # <<>>
  /\ \E k \in 1..Len(triplets) : triplets[k].metadata = <<>>
  /\ \E j, k \in 1..Len(triplets) :
       j # k /\ Values(triplets)[j] = Values(triplets)[k]

---------------------------------------------------------------------------
(* Not-found conditions *)

---------------------------------------------------------------------------
(* LevelingSystem.  A float is a fraction [num, den] with den > 0, and the *)
(* arithmetic on floats is exact; only halves and whole numbers are        *)
(* exponents, so that level ** exponent is a power or the square root of   *)
(* one.  int() cuts towards zero.                                          *)

Rat(n, d) == [num |-> n, den |-> d]

Abs(x) == IF x >= 0 THEN x ELSE -x

Sign(x) == IF x > 0 THEN 1 ELSE IF x < 0 THEN -1 ELSE 0

(* int(a / b) for b > 0 *)
TruncDiv(a, b) == IF a >= 0 THEN a \div b ELSE -((-a) \div b)

RECURSIVE Pow(_, _)
Pow(b, n) == IF n = 0 THEN 1 ELSE b * Pow(b, n - 1)

(* The whole part of the square root of n >= 0 *)
RECURSIVE Isqrt(_)
Isqrt(n) ==
  IF n < 2 THEN n
  ELSE LET s == 2 * Isqrt(n \div 4)
       IN  IF (s + 1) * (s + 1) <= n THEN s + 1 ELSE s

(* math.log(n), in units of 1/100000 *)
LogScaled(n) ==
  CASE n = 1 -> 0 [] n = 2 -> 69315 [] n = 3 -> 109861 [] n = 4 -> 138629
    [] n = 5 -> 160944 [] n = 6 -> 179176 [] n = 7 -> 194591 [] n = 8 -> 207944

XPCurve(curve_type, base_xp, exponent, level_multiplier) ==
  [curve_type |-> curve_type, base_xp |-> base_xp, exponent |-> exponent,
   level_multiplier |-> level_multiplier]

DefaultXPCurve == XPCurve("exponential", 100, Rat(3, 2), Rat(1, 1))

ContentBudget(main, side, dungeons, events, grinding) ==
  [main_quests_percent |-> main, side_quests_percent |-> side,
   dungeons_percent |-> dungeons, events_percent |-> events,
   grinding_percent |-> grinding]

DefaultContentBudget ==
  ContentBudget(Rat(35, 100), Rat(25, 100), Rat(20, 100), Rat(10, 100), Rat(10, 100))

(* _exponential_curve with the exponent negated *)
_exponential_curve_falling(curve, level) ==
  LET c == Abs(curve.base_xp) * Abs(curve.level_multiplier.num)
      e == curve.exponent
      up == IF e.num < 0 THEN Pow(level, -e.num) ELSE 1
      down == IF e.num >= 0 THEN Pow(level, e.num) ELSE 1
      den == curve.level_multiplier.den
      magnitude == IF e.den = 1 THEN (c * up) \div (den * down)
                   ELSE Isqrt((c * c * up) \div (den * den * down))
  IN  Sign(curve.base_xp) * Sign(curve.level_multiplier.num) * magnitude

(* int(base_xp * level ** exponent * level_multiplier) *)
_exponential_curve(curve, level) ==
  LET c == Abs(curve.base_xp) * Abs(curve.level_multiplier.num)
      e == curve.exponent
      up == IF e.num >= 0 THEN Pow(level, e.num) ELSE 1
      down == IF e.num < 0 THEN Pow(level, -e.num) ELSE 1
      den == curve.level_multiplier.den
      magnitude == IF e.den = 1 THEN (c * up) \div (den * down)
                   ELSE Isqrt((c * c * up) \div (den * den * down))
  IN  Sign(curve.base_xp) * Sign(curve.level_multiplier.num) * magnitude

(* int(base_xp * level * level_multiplier) *)
_linear_curve(curve, level) ==
  TruncDiv(curve.base_xp * level * curve.level_multiplier.num, curve.level_multiplier.den)

(* int(base_xp * math.log(level + 1) * level * level_multiplier) *)
_logarithmic_curve(curve, level) ==
  TruncDiv(curve.base_xp * curve.level_multiplier.num * level * LogScaled(level + 1),
           curve.level_multiplier.den * 100000)

(* An unknown curve_type takes the exponential curve *)
_calculate_xp_table(max_level, curve) ==
  [level \in 1..max_level |->
     IF curve.curve_type = "exponential" THEN _exponential_curve(curve, level)
     ELSE IF curve.curve_type = "linear" THEN _linear_curve(curve, level)
     ELSE IF curve.curve_type = "logarithmic" THEN _logarithmic_curve(curve, level)
     ELSE _exponential_curve(curve, level)]

(* sum(table[level] for level in a..b), every level a key of table *)
RECURSIVE SumRange(_, _, _)
SumRange(table, a, b) == IF a > b THEN 0 ELSE table[a] + SumRange(table, a + 1, b)

(* sum(table.values()) for a table with the keys 1..n *)
SumValues(table) == SumRange(table, 1, Cardinality(DOMAIN table))

(* __init__: xp_curve and content_budget are <<>> for None *)
LevelingSystem(max_level, xp_curve, content_budget) ==
  LET curve == IF xp_curve # <<>> THEN xp_curve[1] ELSE DefaultXPCurve
      table == _calculate_xp_table(max_level, curve)
  IN  [max_level |-> max_level,
       xp_curve |-> curve,
       content_budget |-> IF content_budget # <<>> THEN content_budget[1]
                          ELSE DefaultContentBudget,
       xp_per_level |-> table,
       total_xp_needed |-> SumValues(table)]

(* get_level_range_xp that leaves max_level out of the range *)
get_level_range_xp_exclusive(sys, min_level, max_level) ==
  IF \E level \in min_level..(max_level - 1) : level \notin DOMAIN sys.xp_per_level
    THEN [kind |-> "raise", error |-> "KeyError"]
    ELSE [kind |-> "int", val |-> SumRange(sys.xp_per_level, min_level, max_level - 1)]

(* get_level_range_xp that passes over the levels the table does not have *)
get_level_range_xp_skipping_missing(sys, min_level, max_level) ==
  LET has == DOMAIN sys.xp_per_level
      known == [level \in min_level..max_level |->
                  IF level \in has THEN sys.xp_per_level[level] ELSE 0]
  IN  [kind |-> "int", val |-> SumRange(known, min_level, max_level)]

(* The lookup of a level that is no key of the table raises KeyError *)
get_level_range_xp(sys, min_level, max_level) ==
  IF \E level \in min_level..max_level : level \notin DOMAIN sys.xp_per_level
    THEN [kind |-> "raise", error |-> "KeyError"]
    ELSE [kind |-> "int", val |-> SumRange(sys.xp_per_level, min_level, max_level)]

avg_main_quest_xp == 500
avg_side_quest_xp == 200
avg_dungeon_xp == 1000
avg_event_xp == 300

(* The share rounded up instead of cut *)
Share_rounded_up(total, percent) == -((-(total * percent.num)) \div percent.den)

(* int(total * percent) *)
Share(total, percent) == TruncDiv(total * percent.num, percent.den)

(* The count rounded up to cover the whole share *)
Requirement_rounded_up(total_xp, avg_xp) ==
  [total_xp |-> total_xp, count |-> -((-total_xp) \div avg_xp), avg_xp |-> avg_xp]

Requirement(total_xp, avg_xp) ==
  [total_xp |-> total_xp, count |-> total_xp \div avg_xp, avg_xp |-> avg_xp]

calculate_content_requirements(sys) ==
  [main_quests |->
     Requirement(Share(sys.total_xp_needed, sys.content_budget.main_quests_percent),
                 avg_main_quest_xp),
   side_quests |->
     Requirement(Share(sys.total_xp_needed, sys.content_budget.side_quests_percent),
                 avg_side_quest_xp),
   dungeons |->
     Requirement(Share(sys.total_xp_needed, sys.content_budget.dungeons_percent),
                 avg_dungeon_xp),
   events |->
     Requirement(Share(sys.total_xp_needed, sys.content_budget.events_percent),
                 avg_event_xp)]

(* validate_content_xp that takes a deficit of 0 for not enough *)
validate_content_xp_strict(sys, main_quest_count, side_quest_count, dungeon_count, event_count, avg_quest_level) ==
  LET requirements == calculate_content_requirements(sys)
      available_xp == main_quest_count * requirements.main_quests.avg_xp
                        + side_quest_count * requirements.side_quests.avg_xp
                        + dungeon_count * requirements.dungeons.avg_xp
                        + event_count * requirements.events.avg_xp
      deficit == available_xp - sys.total_xp_needed
      valid == deficit > 0
      needed_xp == Abs(deficit)
      main_quests_needed == needed_xp \div requirements.main_quests.avg_xp
      side_quests_needed == needed_xp \div requirements.side_quests.avg_xp
      need == <<[text |-> "Need more XP to reach level", n |-> needed_xp,
                 level |-> sys.max_level]>>
      add_main == IF main_quests_needed > 0
                    THEN <<[text |-> "Add main quests", n |-> main_quests_needed]>>
                    ELSE <<>>
      add_side == IF side_quests_needed > 0
                    THEN <<[text |-> "Or add side quests", n |-> side_quests_needed]>>
                    ELSE <<>>
  IN  [valid |-> valid,
       total_xp |-> available_xp,
       needed_xp |-> sys.total_xp_needed,
       deficit |-> deficit,
       suggestions |-> IF ~valid THEN need \o add_main \o add_side ELSE <<>>]

(* A suggestion is the text with the numbers it is formatted with *)
validate_content_xp(sys, main_quest_count, side_quest_count, dungeon_count, event_count, avg_quest_level) ==
  LET requirements == calculate_content_requirements(sys)
      available_xp == main_quest_count * requirements.main_quests.avg_xp
                        + side_quest_count * requirements.side_quests.avg_xp
                        + dungeon_count * requirements.dungeons.avg_xp
                        + event_count * requirements.events.avg_xp
      deficit == available_xp - sys.total_xp_needed
      valid == deficit >= 0
      needed_xp == Abs(deficit)
      main_quests_needed == needed_xp \div requirements.main_quests.avg_xp
      side_quests_needed == needed_xp \div requirements.side_quests.avg_xp
      need == <<[text |-> "Need more XP to reach level", n |-> needed_xp,
                 level |-> sys.max_level]>>
      add_main == IF main_quests_needed > 0
                    THEN <<[text |-> "Add main quests", n |-> main_quests_needed]>>
                    ELSE <<>>
      add_side == IF side_quests_needed > 0
                    THEN <<[text |-> "Or add side quests", n |-> side_quests_needed]>>
                    ELSE <<>>
  IN  [valid |-> valid,
       total_xp |-> available_xp,
       needed_xp |-> sys.total_xp_needed,
       deficit |-> deficit,
       suggestions |-> IF ~valid THEN need \o add_main \o add_side ELSE <<>>]

(* i % r of Python for r # 0: the result has the sign of r *)
PyMod(i, r) == IF r > 0 THEN i % r ELSE -((-i) % (-r))

(* sorted(levels) *)
RECURSIVE Sorted(_)
Sorted(levels) ==
  IF levels = <<>> THEN <<>>
  ELSE LET rest == Sorted(Tail(levels))
           below(v) == v < Head(levels)
           notBelow(v) == ~(v < Head(levels))
       IN  SelectSeq(rest, below) \o <<Head(levels)>> \o SelectSeq(rest, notBelow)

(* distribute_content_across_levels that returns the levels unsorted *)
distribute_content_unsorted(sys, content_count, min_level, max_level) ==
  LET top == IF max_level = <<>> THEN sys.max_level ELSE max_level[1]
      level_range == top - min_level + 1
  IN  IF content_count > 0 /\ level_range = 0
        THEN [kind |-> "raise", error |-> "ZeroDivisionError"]
        ELSE [kind |-> "list",
              val |-> [k \in 1..content_count |-> min_level + PyMod(k - 1, level_range)]]

(* max_level is <<>> for None; i % 0 raises ZeroDivisionError *)
distribute_content_across_levels(sys, content_count, min_level, max_level) ==
  LET top == IF max_level = <<>> THEN sys.max_level ELSE max_level[1]
      level_range == top - min_level + 1
  IN  IF content_count > 0 /\ level_range = 0
        THEN [kind |-> "raise", error |-> "ZeroDivisionError"]
        ELSE [kind |-> "list",
              val |-> Sorted([k \in 1..content_count |->
                                min_level + PyMod(k - 1, level_range)])]

---------------------------------------------------------------------------
(* The calls made on the LevelingSystem *)

MaxLevel == 3       \* max_level and the levels of the calls
MaxQuests == 2      \* main and side quest counts of validate_content_xp
MaxContent == 4     \* content_count of distribute_content_across_levels

InputCurves ==
  {DefaultXPCurve,
   XPCurve("exponential", 1, Rat(1, 2), Rat(3, 2)),
   XPCurve("exponential", 7, Rat(1, 2), Rat(3, 2)),
   XPCurve("exponential", 250, Rat(2, 1), Rat(1, 2)),
   XPCurve("exponential", 100, Rat(-1, 1), Rat(1, 1)),
   XPCurve("linear", 100, Rat(3, 2), Rat(1, 1)),
   XPCurve("linear", 7, Rat(3, 2), Rat(1, 2)),
   XPCurve("linear", 0, Rat(3, 2), Rat(1, 1)),
   XPCurve("linear", -100, Rat(3, 2), Rat(1, 1)),
   XPCurve("logarithmic", 100, Rat(3, 2), Rat(1, 1)),
   XPCurve("cubic", 100, Rat(3, 2), Rat(1, 1))}

InputBudgets ==
  {DefaultContentBudget,
   ContentBudget(Rat(1, 2), Rat(1, 2), Rat(0, 1), Rat(0, 1), Rat(0, 1)),
   ContentBudget(Rat(1, 1), Rat(25, 100), Rat(20, 100), Rat(10, 100), Rat(10, 100)),
   ContentBudget(Rat(-1, 2), Rat(-1, 2), Rat(2, 1), Rat(0, 1), Rat(0, 1))}

Level == leveling[1]

Construct(max_level, xp_curve, content_budget) ==
  /\ leveling' = <<LevelingSystem(max_level, xp_curve, content_budget)>>
  /\ op' = "LevelingSystem"
  /\ ret' = [kind |-> "none"]
  /\ UNCHANGED <<gridVars, kgVars, callVars>>

GetLevelRangeXp(min_level, max_level) ==
  /\ leveling # <<>>
  /\ ret' = get_level_range_xp(Level, min_level, max_level)
  /\ op' = "get_level_range_xp"
  /\ UNCHANGED <<gridVars, kgVars, lvlVars, callVars>>

CalculateContentRequirements ==
  /\ leveling # <<>>
  /\ ret' = [kind |-> "dict", val |-> calculate_content_requirements(Level)]
  /\ op' = "calculate_content_requirements"
  /\ UNCHANGED <<gridVars, kgVars, lvlVars, callVars>>

ValidateContentXp(main, side, dungeon, event, avg_quest_level) ==
  /\ leveling # <<>>
  /\ ret' = [kind |-> "dict",
             val |-> validate_content_xp(Level, main, side, dungeon, event, avg_quest_level)]
  /\ op' = "validate_content_xp"
  /\ UNCHANGED <<gridVars, kgVars, lvlVars, callVars>>

DistributeContent(content_count, min_level, max_level) ==
  /\ leveling # <<>>
  /\ ret' = distribute_content_across_levels(Level, content_count, min_level, max_level)
  /\ op' = "distribute_content_across_levels"
  /\ UNCHANGED <<gridVars, kgVars, lvlVars, callVars>>

LevelNext ==
  \/ \E n \in 0..MaxLevel, curve \in Optional(InputCurves), budget \in Optional(InputBudgets) :
       Construct(n, curve, budget)
  \/ \E a \in 0..(MaxLevel + 1), b \in 0..(MaxLevel + 1) : GetLevelRangeXp(a, b)
  \/ CalculateContentRequirements
  \/ \E main \in 0..MaxQuests, side \in 0..MaxQuests, dungeon \in 0..1, event \in 0..1,
        avg \in Optional({1}) :
       ValidateContentXp(main, side, dungeon, event, avg)
  \/ \E n \in 0..MaxContent, a \in 1..(MaxLevel + 1), b \in Optional(0..MaxLevel) :
       DistributeContent(n, a, b)

SpecLevel == Init /\ [][LevelNext]_vars

---------------------------------------------------------------------------
(* Properties of the LevelingSystem *)

(* The sum of table over the levels of the set S *)
RECURSIVE SumOver(_, _)
SumOver(table, S) ==
  IF S = {} THEN 0
  ELSE LET level == CHOOSE l \in S : TRUE
       IN  table[level] + SumOver(table, S \ {level})

(* C15: with max_level >= 1, xp_per_level has exactly the keys             *)
(* 1..max_level, total_xp_needed is the sum of its values,                 *)
(* get_level_range_xp(a, b) for 1 <= a <= b <= max_level is the sum of     *)
(* xp_per_level over a..b, get_level_range_xp(1, max_level) is             *)
(* total_xp_needed, and the ranges a..b and b+1..c add up to a..c.         *)
C15_RangeXpIsSumOfTable ==
  (leveling # <<>> /\ Level.max_level >= 1) =>
    LET top == Level.max_level
        table == Level.xp_per_level
        range(a, b) == get_level_range_xp(Level, a, b)
    IN  /\ DOMAIN table = 1..top
        /\ Level.total_xp_needed = SumOver(table, 1..top)
        /\ \A a \in 1..top : \A b \in a..top :
             range(a, b) = [kind |-> "int", val |-> SumOver(table, a..b)]
        /\ range(1, top) = [kind |-> "int", val |-> Level.total_xp_needed]
        /\ \A a \in 1..top : \A b \in a..top : \A c \in (b + 1)..top :
             range(a, b).val + range(b + 1, c).val = range(a, c).val

(* C15 witness: get_level_range_xp has returned the sum of a range of      *)
(* several levels that is not the whole table, of a table whose values     *)
(* differ.                                                                 *)
C15_Witness ==
  /\ leveling # <<>>
  /\ Level.max_level >= 3
  /\ op = "get_level_range_xp"
  /\ ret = get_level_range_xp(Level, 2, 3)
  /\ ret.kind = "int"
  /\ ret.val # Level.total_xp_needed
  /\ Level.xp_per_level[2] # Level.xp_per_level[3]
  /\ ret.val = Level.xp_per_level[2] + Level.xp_per_level[3]

(* The sum of total_xp over the four categories of the requirements *)
FourTotals(requirements) ==
  requirements.main_quests.total_xp + requirements.side_quests.total_xp
    + requirements.dungeons.total_xp + requirements.events.total_xp

(* The four content percentages of budget, grinding left out *)
FourPercents(budget) ==
  <<budget.main_quests_percent, budget.side_quests_percent, budget.dungeons_percent,
    budget.events_percent>>

(* The sum of the four fractions as one fraction *)
FourSum(ps) ==
  Rat(ps[1].num * ps[2].den * ps[3].den * ps[4].den
        + ps[2].num * ps[1].den * ps[3].den * ps[4].den
        + ps[3].num * ps[1].den * ps[2].den * ps[4].den
        + ps[4].num * ps[1].den * ps[2].den * ps[3].den,
      ps[1].den * ps[2].den * ps[3].den * ps[4].den)

(* C16 as stated: for every constructed LevelingSystem, whatever its       *)
(* max_level, curve and ContentBudget, the sum of total_xp over            *)
(* main_quests, side_quests, dungeons and events is at most                *)
(* total_xp_needed.                                                        *)
C16_BudgetWithinTotal ==
  leveling # <<>> =>
    FourTotals(calculate_content_requirements(Level)) <= Level.total_xp_needed

(* C16 amended: the sum of total_xp over the four categories is at most    *)
(* total_xp_needed for every constructed LevelingSystem with               *)
(* total_xp_needed >= 0 whose four content percentages are not negative    *)
(* and sum to at most 1.                                                   *)
C16_BudgetWithinTotalForProperBudget ==
  (/\ leveling # <<>>
   /\ Level.total_xp_needed >= 0
   /\ \A k \in 1..4 : FourPercents(Level.content_budget)[k].num >= 0
   /\ FourSum(FourPercents(Level.content_budget)).num
        <= FourSum(FourPercents(Level.content_budget)).den)
    => FourTotals(calculate_content_requirements(Level)) <= Level.total_xp_needed

(* C16 witness: calculate_content_requirements has returned the shares of  *)
(* a budget whose four percentages sum to 1 exactly, for a positive total  *)
(* that the cut to whole numbers does not divide evenly.                   *)
C16_Witness ==
  /\ leveling # <<>>
  /\ op = "calculate_content_requirements"
  /\ ret.val = calculate_content_requirements(Level)
  /\ Level.total_xp_needed > 0
  /\ \A k \in 1..4 : FourPercents(Level.content_budget)[k].num >= 0
  /\ FourSum(FourPercents(Level.content_budget)).num
       = FourSum(FourPercents(Level.content_budget)).den
  /\ FourTotals(ret.val) < Level.total_xp_needed

(* C17, on the values: for all counts that are not negative,               *)
(* validate_content_xp returns total_xp = 500*main + 200*side +            *)
(* 1000*dungeon + 300*event, needed_xp = total_xp_needed, deficit =        *)
(* total_xp - total_xp_needed and valid = (deficit >= 0); suggestions is   *)
(* empty exactly when valid; avg_quest_level makes no difference.          *)
C17_ValidateValues ==
  leveling # <<>> =>
    \A main \in 0..MaxQuests : \A side \in 0..MaxQuests :
      \A dungeon \in 0..MaxQuests : \A event \in 0..MaxQuests :
        LET r == validate_content_xp(Level, main, side, dungeon, event, <<>>)
        IN  /\ r.total_xp = 500 * main + 200 * side + 1000 * dungeon + 300 * event
            /\ r.needed_xp = Level.total_xp_needed
            /\ r.deficit = r.total_xp - Level.total_xp_needed
            /\ r.valid = (r.deficit >= 0)
            /\ (r.suggestions = <<>>) <=> r.valid
            /\ \A level \in 1..MaxLevel :
                 validate_content_xp(Level, main, side, dungeon, event, <<level>>) = r

(* C17: validate_content_xp returns the values above, and the call changes *)
(* no state of the LevelingSystem.                                         *)
C17_ValidateContentXp ==
  /\ []C17_ValidateValues
  /\ [][op' = "validate_content_xp" => leveling' = leveling]_vars

(* C17 witness: validate_content_xp has returned, for counts that are not  *)
(* all 0, that the XP is not enough, with its suggestions.                 *)
C17_Witness ==
  /\ leveling # <<>>
  /\ op = "validate_content_xp"
  /\ ret.val.total_xp > 0
  /\ ~ret.val.valid
  /\ Len(ret.val.suggestions) = 3
  /\ ret.val.deficit = ret.val.total_xp - Level.total_xp_needed

(* The suggestion with the text is made *)
Suggests(suggestions, text) == \E k \in 1..Len(suggestions) : suggestions[k].text = text

(* The number the suggestion with the text names *)
Suggested(suggestions, text) ==
  suggestions[CHOOSE k \in 1..Len(suggestions) : suggestions[k].text = text].n

(* C18: when validate_content_xp reports valid = false, the call with the  *)
(* main quest count raised by the suggested number of main quests, the     *)
(* other counts as they were, reports valid = true; and so does the call   *)
(* with the side quest count raised by the suggested number of side        *)
(* quests.                                                                 *)
C18_SuggestionsCloseGap ==
  leveling # <<>> =>
    \A main \in 0..MaxQuests : \A side \in 0..MaxQuests :
      \A dungeon \in 0..1 : \A event \in 0..1 :
        LET r == validate_content_xp(Level, main, side, dungeon, event, <<>>)
        IN  ~r.valid =>
              /\ Suggests(r.suggestions, "Add main quests") =>
                   validate_content_xp(
                     Level, main + Suggested(r.suggestions, "Add main quests"), side,
                     dungeon, event, <<>>).valid
              /\ Suggests(r.suggestions, "Or add side quests") =>
                   validate_content_xp(
                     Level, main, side + Suggested(r.suggestions, "Or add side quests"),
                     dungeon, event, <<>>).valid

(* C19: for the exponential and the linear curve with positive base_xp,    *)
(* exponent and level_multiplier the table does not decrease:              *)
(* xp_per_level[n+1] >= xp_per_level[n] for n in 1..max_level-1, the cut   *)
(* to a whole number included.                                             *)
C19_TableNonDecreasing ==
  (/\ leveling # <<>>
   /\ Level.xp_curve.curve_type \in {"exponential", "linear"}
   /\ Level.xp_curve.base_xp > 0
   /\ Level.xp_curve.exponent.num > 0
   /\ Level.xp_curve.level_multiplier.num > 0)
    => \A n \in 1..(Level.max_level - 1) :
         Level.xp_per_level[n + 1] >= Level.xp_per_level[n]

(* C19 witness: a LevelingSystem has been made with an exponential curve   *)
(* of positive parameters and an exponent that is not whole, whose table   *)
(* rises at one level and, by the cut, stays level at another.             *)
C19_Witness ==
  /\ leveling # <<>>
  /\ op = "LevelingSystem"
  /\ Level.xp_curve.curve_type = "exponential"
  /\ Level.xp_curve.base_xp > 0
  /\ Level.xp_curve.exponent.num > 0
  /\ Level.xp_curve.exponent.den = 2
  /\ Level.xp_curve.level_multiplier.num > 0
  /\ Level.max_level >= 3
  /\ Level.xp_per_level[2] > Level.xp_per_level[1]
  /\ Level.xp_per_level[3] = Level.xp_per_level[2]

(* How many places of list hold v *)
Occurrences(list, v) == Cardinality({k \in 1..Len(list) : list[k] = v})

(* C20: for content_count >= 0 and min_level <= max_level,                 *)
(* distribute_content_across_levels returns a list of content_count levels *)
(* that does not decrease, each level within min_level..max_level, every   *)
(* level of the range appearing content_count div R times, and once more   *)
(* for the content_count mod R lowest levels, R = max_level - min_level +  *)
(* 1; with max_level omitted the max_level of the system is taken.         *)
C20_DistributionIsEven ==
  leveling # <<>> =>
    \A n \in 0..MaxContent : \A a \in 1..(MaxLevel + 1) :
      \A b \in Optional(0..(MaxLevel + 1)) :
        LET top == IF b = <<>> THEN Level.max_level ELSE b[1]
            R == top - a + 1
            r == distribute_content_across_levels(Level, n, a, b)
        IN  a <= top =>
              /\ r.kind = "list"
              /\ Len(r.val) = n
              /\ \A k \in 1..(n - 1) : r.val[k] <= r.val[k + 1]
              /\ \A k \in 1..n : a <= r.val[k] /\ r.val[k] <= top
              /\ \A level \in a..top :
                   Occurrences(r.val, level)
                     = (n \div R) + (IF level - a < n % R THEN 1 ELSE 0)

(* C20 witness: distribute_content_across_levels has returned four levels  *)
(* for a range of three: the lowest twice, the others once.                *)
C20_Witness ==
  /\ leveling # <<>>
  /\ op = "distribute_content_across_levels"
  /\ ret.kind = "list"
  /\ Len(ret.val) = 4
  /\ ret.val[1] = ret.val[2]
  /\ ret.val[3] = ret.val[2] + 1
  /\ ret.val[4] = ret.val[3] + 1

---------------------------------------------------------------------------
(* Lookup errors of the LevelingSystem *)

(* The levels the calls of the properties below are made with *)
ProbedLevels == (-1)..(MaxLevel + 1)

(* C21 as stated: get_level_range_xp(min_level, max_level) signals a lookup *)
(* error, rather than returning a number, whenever min_level < 1 or the     *)
(* max_level argument exceeds the system's max_level; it returns a number   *)
(* only for ranges that lie within 1..max_level.                            *)
C21_OutOfRangeIsLookupError ==
  leveling # <<>> =>
    \A a \in ProbedLevels : \A b \in ProbedLevels :
      LET r == get_level_range_xp(Level, a, b)
      IN  /\ (a < 1 \/ b > Level.max_level) => r.kind = "raise"
          /\ r.kind = "int" => (1 <= a /\ b <= Level.max_level)

(* C21 amended: for min_level <= max_level, get_level_range_xp signals a    *)
(* lookup error (KeyError) exactly when min_level < 1 or the max_level      *)
(* argument exceeds the system's max_level, and returns a number otherwise; *)
(* for min_level > max_level the range is empty, no level is looked up and  *)
(* the call returns 0, wherever the two arguments lie.                      *)
C21_NonEmptyOutOfRangeIsLookupError ==
  leveling # <<>> =>
    \A a \in ProbedLevels : \A b \in ProbedLevels :
      LET r == get_level_range_xp(Level, a, b)
      IN  /\ a <= b =>
               /\ (a < 1 \/ b > Level.max_level) =>
                    r = [kind |-> "raise", error |-> "KeyError"]
               /\ (1 <= a /\ b <= Level.max_level) => r.kind = "int"
          /\ a > b => r = [kind |-> "int", val |-> 0]

(* C21 witness: get_level_range_xp has raised for a range that starts       *)
(* within the table of a system of several levels and ends past it.         *)
C21_Witness ==
  /\ leveling # <<>>
  /\ Level.max_level >= 2
  /\ op = "get_level_range_xp"
  /\ ret = [kind |-> "raise", error |-> "KeyError"]
  /\ ret = get_level_range_xp(Level, 2, Level.max_level + 1)
  /\ get_level_range_xp(Level, 2, Level.max_level).kind = "int"

---------------------------------------------------------------------------
(* Configuration errors *)

(* Constructor arguments of a SpatialGrid, proper and not *)
InputCellSizes == {-1, 0, cell_size}

InputGridBounds ==
  {GridBounds,
   [min |-> Vec(MaxCoord, 0, 0), max |-> Vec(0, 1, 0)],
   [min |-> Vec(0, 1, 0), max |-> Vec(MaxCoord, 0, 0)]}

(* min exceeds max on some axis *)
Inverted(b) == b.min.x > b.max.x \/ b.min.y > b.max.y \/ b.min.z > b.max.z

(* C22: constructing a SpatialGrid with cell_size <= 0 or with bounds whose *)
(* min exceeds max on some axis fails in the constructor, and so does       *)
(* constructing a LevelingSystem with max_level <= 0: no instance with such *)
(* a configuration exists on which calculate_content_requirements (or       *)
(* add_object, check_collision, get_stats) could later be called.           *)
C22_ConfigurationErrorsFailAtConstruction ==
  /\ leveling # <<>> => Level.max_level > 0
  /\ op = "calculate_content_requirements" => Level.max_level > 0
  /\ \A b \in InputGridBounds : \A c \in InputCellSizes :
       (c <= 0 \/ Inverted(b)) => SpatialGrid(b, c).kind # "instance"

---------------------------------------------------------------------------
(* add_object run step by step.  A call of add_object for an id walks      *)
(* through check_collision (the loop that gathers the candidates of the    *)
(* cells, one cell a step, then the loop that tests them), the insert into *)
(* objects and the loop that appends the id to the buckets, one cell a     *)
(* step; the steps of two calls may alternate in any way.                  *)

(* The list _get_cells returns: x outermost, z innermost *)
CellList(b) ==
  LET x0 == CellOf(b.min.x)
      y0 == CellOf(b.min.y)
      z0 == CellOf(b.min.z)
      nx == CellOf(b.max.x) - x0 + 1
      ny == CellOf(b.max.y) - y0 + 1
      nz == CellOf(b.max.z) - z0 + 1
      n == IF nx > 0 /\ ny > 0 /\ nz > 0 THEN nx * ny * nz ELSE 0
  IN  [k \in 1..n |->
         <<x0 + ((k - 1) \div (ny * nz)), y0 + (((k - 1) \div nz) % ny), z0 + ((k - 1) % nz)>>]

(* The test loop that finds no candidate to intersect *)
NarrowPhase_blind(objs, cand, b, exclude) == {"False"}

(* The second loop of check_collision, over the candidates gathered *)
NarrowPhase(objs, cand, b, exclude) ==
  LET ids == cand \ exclude
      gone == {i \in ids : i \notin DOMAIN objs}
      hit == {i \in ids \ gone : intersects(b, objs[i].bounds)}
  IN  (IF gone # {} THEN {"KeyError"} ELSE {})
        \cup (IF hit # {} THEN {"True"} ELSE {})
        \cup (IF gone = {} /\ hit = {} THEN {"False"} ELSE {})

(* The call for the id has returned *)
Returned(id) == calls[id].pc = "done"

(* The call for the id has no bucket append left to make *)
AppendsComplete(id) ==
  Returned(id) \/ (calls[id].pc = "append" /\ calls[id].todo = <<>>)

(* The bucket appends of some other call are not complete *)
OtherUnderWay(id) == \E j \in InputIds \ {id} : ~AppendsComplete(j)

Done(c, result) == [pc |-> "done", obj |-> c.obj, early |-> c.early, result |-> result]

(* add_object(obj) is called; early tells whether a bucket read of its     *)
(* check took place while the appends of another call were not complete    *)
AddBegin(obj) ==
  /\ calls[obj.id].pc = "idle"
  /\ calls' = [calls EXCEPT ![obj.id] =
                 [pc |-> IF CellList(obj.bounds) = <<>> THEN "test" ELSE "gather",
                  obj |-> obj, todo |-> CellList(obj.bounds), candidates |-> {},
                  early |-> FALSE]]
  /\ UNCHANGED <<gridVars, kgVars, lvlVars, op, ret>>

(* check_collision: candidates.update(self.grid[cell]) for the next cell *)
AddGather(id) ==
  /\ calls[id].pc = "gather"
  /\ LET c == calls[id]
         cell == Head(c.todo)
     IN  calls' = [calls EXCEPT ![id] =
                     [c EXCEPT
                        !.pc = IF Tail(c.todo) = <<>> THEN "test" ELSE "gather",
                        !.todo = Tail(c.todo),
                        !.candidates = @ \cup (IF cell \in DOMAIN grid
                                                 THEN Range(grid[cell]) ELSE {}),
                        !.early = @ \/ OtherUnderWay(id)]]
  /\ UNCHANGED <<gridVars, kgVars, lvlVars, op, ret>>

(* check_collision: the loop over the candidates, and add_object's return  *)
(* False when it finds a collision                                         *)
AddTest(id) ==
  /\ calls[id].pc = "test"
  /\ LET c == calls[id]
     IN  \E r \in NarrowPhase(objects, c.candidates, c.obj.bounds, {id}) :
           IF r = "False"
             THEN /\ calls' = [calls EXCEPT ![id] =
                                [pc |-> "insert", obj |-> c.obj, early |-> c.early]]
                  /\ UNCHANGED <<op, ret>>
             ELSE LET result == IF r = "KeyError" THEN [kind |-> "raise"]
                                ELSE [kind |-> "bool", val |-> FALSE]
                  IN  /\ calls' = [calls EXCEPT ![id] = Done(c, result)]
                      /\ op' = "add_object"
                      /\ ret' = result
  /\ UNCHANGED <<gridVars, kgVars, lvlVars>>

(* self.objects[obj.id] = obj; cells = self._get_cells(obj.bounds) *)
AddInsert(id) ==
  /\ calls[id].pc = "insert"
  /\ LET c == calls[id]
     IN  /\ objects' = Put(objects, id, c.obj)
         /\ calls' = [calls EXCEPT ![id] =
                        [pc |-> "append", obj |-> c.obj, early |-> c.early,
                         todo |-> CellList(c.obj.bounds)]]
  /\ UNCHANGED <<grid, kgVars, lvlVars, op, ret>>

(* self.grid[cell].append(obj.id) for the next cell, return True after the *)
(* last                                                                    *)
AddAppend(id) ==
  /\ calls[id].pc = "append"
  /\ LET c == calls[id]
     IN  IF c.todo = <<>>
           THEN /\ UNCHANGED grid
                /\ calls' = [calls EXCEPT ![id] = Done(c, [kind |-> "bool", val |-> TRUE])]
                /\ op' = "add_object"
                /\ ret' = [kind |-> "bool", val |-> TRUE]
           ELSE /\ grid' = AppendCells(grid, {Head(c.todo)}, id)
                /\ calls' = [calls EXCEPT ![id] = [c EXCEPT !.todo = Tail(c.todo)]]
                /\ UNCHANGED <<op, ret>>
  /\ UNCHANGED <<objects, kgVars, lvlVars>>

InterleavedNext ==
  \/ \E obj \in InputObjects : AddBegin(obj)
  \/ \E id \in InputIds : AddGather(id)
  \/ \E id \in InputIds : AddTest(id)
  \/ \E id \in InputIds : AddInsert(id)
  \/ \E id \in InputIds : AddAppend(id)

(* One add_object call for each id on an empty grid, their steps in any    *)
(* order                                                                   *)
SpecInterleaved == Init /\ [][InterleavedNext]_vars

ReturnedTrue(id) == Returned(id) /\ calls[id].result = [kind |-> "bool", val |-> TRUE]

(* Both calls have returned true and the objects they placed intersect *)
BothPlacedIntersecting(p, q) ==
  /\ p # q
  /\ ReturnedTrue(p)
  /\ ReturnedTrue(q)
  /\ p \in Placed
  /\ q \in Placed
  /\ intersects(objects[p].bounds, objects[q].bounds)

(* C23: when the steps of two add_object calls for different ids with      *)
(* intersecting bounds alternate, both calls can return true and leave two *)
(* placed objects with intersecting bounds (the witness); this happens     *)
(* only if the collision check of a call reads buckets before the bucket   *)
(* appends of the other call are complete: a call whose check runs after   *)
(* the appends of the other call, which returns true, returns false.       *)
C23_OverlapOnlyByEarlyCheck ==
  \A p \in InputIds : \A q \in InputIds :
    /\ BothPlacedIntersecting(p, q) => (calls[p].early /\ calls[q].early)
    /\ (/\ p # q
        /\ Returned(p)
        /\ ReturnedTrue(q)
        /\ ~calls[p].early
        /\ intersects(calls[p].obj.bounds, calls[q].obj.bounds))
         => calls[p].result = [kind |-> "bool", val |-> FALSE]

(* C23 witness: both calls have returned true and the two placed objects   *)
(* have intersecting bounds.                                               *)
C23_Witness ==
  \E p \in InputIds : \E q \in InputIds : BothPlacedIntersecting(p, q)

---------------------------------------------------------------------------
(* The read operations.  The grid and the graph are objects of their own:  *)
(* the calls below are made on a grid while the graph is empty, or on a    *)
(* graph while the grid is empty.                                          *)

(* stats() walks self.triplets and looks no index up *)
Stats ==
  /\ ret' = [kind |-> "stats", val |-> stats(Graph)]
  /\ op' = "stats"
  /\ UNCHANGED <<gridVars, kgVars, lvlVars, callVars>>

GridReadOps == {"check_collision", "find_nearby", "find_placement", "get_stats"}

GraphReadOps == {"find", "get_related", "get_relationship", "stats", "export"}

ReadsNext ==
  \/ /\ triplets = <<>>
     /\ \/ \E obj \in InputObjects : AddObject(obj)
        \/ \E id \in InputIds : RemoveObject(id)
        \/ ReadNext
  \/ /\ objects = EmptyMap
     /\ grid = EmptyMap
     /\ \/ \E item \in InputItems : AddTriplet(item)
        \/ \E e \in InputEntities : RemoveEntity(e)
        \/ \E s \in Optional(InputEntities), p \in Optional(InputPredicates),
              o \in Optional(InputEntities) : Find(s, p, o)
        \/ \E e \in InputEntities, p \in Optional(InputPredicates), d \in InputDirections :
             GetRelated(e, p, d)
        \/ \E s, o \in InputEntities : GetRelationship(s, o)
        \/ Stats
        \/ Export

SpecReads == Init /\ [][ReadsNext]_vars

(* C24, on the results: what get_stats, stats and export returned is what  *)
(* they return on the state they left.                                     *)
C24_ReadResultsStand ==
  /\ op = "get_stats" => ret.val = get_stats(objects, grid)
  /\ op = "stats" => ret.val = stats(Graph)
  /\ op = "export" => ret.val = export(Graph)
  /\ op = "find_nearby" =>
       \E p \in InputPoints : \E r \in 0..MaxRadius : \E t \in {"", "t"} :
         ret = find_nearby(objects, grid, p, r, t)

(* C24: in every reachable state, check_collision, find_nearby,            *)
(* find_placement and get_stats leave the objects map and the cell buckets *)
(* as they were, no bucket created for a queried cell, and find,           *)
(* get_related, get_relationship, stats and export leave the triplet list  *)
(* and the three indexes as they were, no index bucket created for a       *)
(* queried key; so a read returns the same after any reads.                *)
C24_ReadsChangeNoState ==
  /\ []C24_ReadResultsStand
  /\ [][op' \in GridReadOps \cup GraphReadOps =>
          /\ objects' = objects
          /\ grid' = grid
          /\ DOMAIN grid' = DOMAIN grid
          /\ triplets' = triplets
          /\ subject_index' = subject_index
          /\ object_index' = object_index
          /\ predicate_index' = predicate_index
          /\ DOMAIN subject_index' = DOMAIN subject_index
          /\ DOMAIN object_index' = DOMAIN object_index
          /\ DOMAIN predicate_index' = DOMAIN predicate_index]_vars

(* C24 witness: check_collision has answered false on a grid with a placed *)
(* object for a box one of whose cells has no bucket, and the cell still   *)
(* has none.                                                               *)
C24_Witness ==
  /\ op = "check_collision"
  /\ ret = [kind |-> "bool", val |-> FALSE]
  /\ Placed # {}
  /\ \A b \in InputBoxes :
       check_collision(objects, grid, b, {}) = {"False"} => ~(_get_cells(b) \subseteq DOMAIN grid)

---------------------------------------------------------------------------
(* The predicate filter *)

(* C25: find(predicate=p) returns only triplets whose predicate string     *)
(* equals p, for every string p a triplet may carry, the empty string      *)
(* included, and get_related(e, predicate=p) only follows triplets whose   *)
(* predicate equals p: a supplied predicate is always an exact-match       *)
(* filter.                                                                 *)
C25_PredicateIsExactFilter ==
  \A p \in InputPredicates :
    /\ \A s \in Optional(InputEntities) : \A o \in Optional(InputEntities) :
         find(Graph, s, <<p>>, o) = Matching(triplets, s, <<p>>, o)
    /\ \A e \in InputEntities :
         /\ get_related(Graph, e, <<p>>, "outgoing")
              = ObjectsOf(Matching(triplets, <<e>>, <<p>>, <<>>))
         /\ get_related(Graph, e, <<p>>, "incoming")
              = SubjectsOf(Matching(triplets, <<>>, <<p>>, <<e>>))

---------------------------------------------------------------------------
(* find_placement run attempt by attempt, on a grid that add_object and    *)
(* remove_object have made before the call; drawn counts the candidates    *)
(* drawn so far.                                                           *)

PlacementCall == calls["find_placement"]

PlacementBegin(size, rule, max_attempts) ==
  /\ PlacementCall.pc = "idle"
  /\ calls' = [calls EXCEPT !["find_placement"] =
                 [pc |-> "loop", size |-> size, rule |-> rule,
                  max_attempts |-> max_attempts, drawn |-> 0]]
  /\ UNCHANGED <<gridVars, kgVars, lvlVars, op, ret>>

(* One pass of `for _ in range(max_attempts)`: a draw and its tests *)
PlacementAttempt ==
  /\ PlacementCall.pc = "loop"
  /\ PlacementCall.drawn < PlacementCall.max_attempts
  /\ LET c == PlacementCall
     IN  \E p \in Draws(c.rule) :
           \E t \in TryPosition(objects, grid, p, c.size, c.rule) :
             IF t = "continue"
               THEN /\ calls' = [calls EXCEPT !["find_placement"].drawn = @ + 1]
                    /\ UNCHANGED <<op, ret>>
               ELSE /\ calls' = [calls EXCEPT !["find_placement"].drawn = @ + 1,
                                              !["find_placement"].pc = "done"]
                    /\ op' = "find_placement"
                    /\ ret' = IF t = "return" THEN [kind |-> "pos", val |-> p]
                              ELSE [kind |-> "raise"]
  /\ UNCHANGED <<gridVars, kgVars, lvlVars>>

(* The loop is over: return None *)
PlacementExhausted ==
  /\ PlacementCall.pc = "loop"
  /\ PlacementCall.drawn >= PlacementCall.max_attempts
  /\ calls' = [calls EXCEPT !["find_placement"].pc = "done"]
  /\ op' = "find_placement"
  /\ ret' = [kind |-> "none"]
  /\ UNCHANGED <<gridVars, kgVars, lvlVars>>

PlacementNext ==
  \/ /\ PlacementCall.pc = "idle"
     /\ \/ \E obj \in InputObjects : AddObject(obj)
        \/ \E id \in InputIds : RemoveObject(id)
  \/ \E size \in InputSizes, rule \in InputRules, n \in (-1)..MaxAttempts :
       PlacementBegin(size, rule, n)
  \/ PlacementAttempt
  \/ PlacementExhausted

SpecPlacement == Init /\ [][PlacementNext]_vars

(* C26: for every grid state, rule and max_attempts, find_placement draws  *)
(* at most max_attempts candidates and then returns either a position or   *)
(* None, None at once when max_attempts <= 0; while it runs a step of it   *)
(* can be taken; and procedural_placement makes at most count calls of     *)
(* find_placement and returns its list.                                    *)
C26_FindPlacementReturnsWithinAttempts ==
  LET c == PlacementCall
  IN  /\ c.pc # "idle" =>
           c.drawn <= (IF c.max_attempts > 0 THEN c.max_attempts ELSE 0)
      /\ (c.pc = "loop" /\ c.drawn < c.max_attempts) =>
           \E p \in Draws(c.rule) : TryPosition(objects, grid, p, c.size, c.rule) # {}
      /\ c.pc = "done" =>
           /\ ret.kind \in {"pos", "none"}
           /\ c.max_attempts <= 0 => (ret.kind = "none" /\ c.drawn = 0)
      /\ c.pc = "idle" =>
           \A t \in InputTypes : \A n \in 0..MaxCount : \A size \in InputSizes :
             \A rule \in InputRules :
               \A out \in procedural_placement(objects, grid, t, n, size, rule) :
                 out.ret.kind = "list" /\ Len(out.ret.attempted) <= n

---------------------------------------------------------------------------
(* Placement exclusivity over whole runs *)

(* C27: in every state reachable by add_object, remove_object and          *)
(* procedural_placement calls, each run to completion before the next and  *)
(* with min <= max in every submitted box, add_object calls that reuse a   *)
(* placed id included, no two distinct placed objects have intersecting    *)
(* bounds.                                                                 *)
C27_PlacedObjectsDisjoint ==
  \A i \in Placed : \A j \in Placed \ {i} :
    ~intersects(objects[i].bounds, objects[j].bounds)

(* C27 witness: add_object has returned true for an id that was placed     *)
(* already, which the buckets now list more often than it has cells, and   *)
(* another object is placed beside it.                                     *)
C27_Witness ==
  /\ op = "add_object"
  /\ ret = [kind |-> "bool", val |-> TRUE]
  /\ \E i \in Placed : \E j \in Placed \ {i} :
       /\ ListedInAll(grid, i) > Cardinality(_get_cells(objects[i].bounds))
       /\ ~intersects(objects[i].bounds, objects[j].bounds)

---------------------------------------------------------------------------
(* procedural_placement called again *)

(* C28: every procedural_placement call increases total_objects by exactly *)
(* the number of objects it returns, and every object an earlier           *)
(* procedural_placement call returned is still placed, under its id and    *)
(* with its position and bounds unchanged, after a later call, also one of *)
(* the same entity_type.  Stated in the states a procedural_placement call *)
(* has returned its list in, over every call that can follow.              *)
C28_LaterPlacementKeepsEarlierObjects ==
  (op = "procedural_placement" /\ ret.kind = "list") =>
    \A t \in InputTypes : \A n \in 0..MaxCount : \A size \in InputSizes :
      \A rule \in InputRules :
        \A out \in procedural_placement(objects, grid, t, n, size, rule) :
          out.ret.kind = "list" =>
            /\ get_stats(out.objects, out.grid).total_objects
                 = get_stats(objects, grid).total_objects + Len(out.ret.val)
            /\ \A k \in 1..Len(ret.val) :
                 /\ ret.val[k].id \in DOMAIN out.objects
                 /\ out.objects[ret.val[k].id].position = ret.val[k].position
                 /\ out.objects[ret.val[k].id].bounds = ret.val[k].bounds

---------------------------------------------------------------------------
(* import_triplets over records the Triplet constructor refuses *)

(* Triplet has the required fields subject, predicate and object: the      *)
(* constructor raises a ValidationError for a dict that lacks one          *)
ValidRecord(item) == {"subject", "predicate", "object"} \subseteq DOMAIN item

(* A record without predicate *)
InvalidItems == {[subject |-> Ref("Q", "1"), object |-> Ref("N", "x:1"), metadata |-> <<>>]}

InputRecords == UNION {[1..n -> InputItems \cup InvalidItems] : n \in 0..MaxImport}

(* The loop of import_triplets over data: the graph it leaves and how the  *)
(* call ends.  The exception of the constructor leaves the loop and the    *)
(* call; the records before it have been added.                            *)
RECURSIVE ImportFrom(_, _)
ImportFrom(G, data) ==
  IF data = <<>> THEN [graph |-> G, ret |-> [kind |-> "none"]]
  ELSE IF ~ValidRecord(Head(data)) THEN [graph |-> G, ret |-> [kind |-> "raise"]]
  ELSE ImportFrom(add_triplet(G, MakeTriplet(Head(data), FreshIdent(G.triplets))),
                  Tail(data))

ImportRecords(data) ==
  /\ Len(triplets) + Len(data) <= MaxTriplets
  /\ LET r == ImportFrom(Graph, data)
     IN  /\ SetGraph(r.graph)
         /\ ret' = r.ret
  /\ op' = "import_triplets"
  /\ UNCHANGED <<gridVars, lvlVars, callVars>>

ImportNext ==
  \/ \E item \in InputItems : AddTriplet(item)
  \/ \E data \in InputRecords : ImportRecords(data)
  \/ \E e \in InputEntities : RemoveEntity(e)

(* The graph under add_triplet, remove_entity and imports of any records *)
SpecImport == Init /\ [][ImportNext]_vars

(* C29: import_triplets is all-or-nothing: when a record of the list       *)
(* cannot be turned into a Triplet the call fails and the triplet list and *)
(* the three indexes are as they were before the call, no prefix of the    *)
(* records added.                                                          *)
C29_ImportIsAllOrNothing ==
  /\ [](\A data \in InputRecords :
          (\E k \in 1..Len(data) : ~ValidRecord(data[k])) =>
            ImportFrom(Graph, data).ret.kind = "raise")
  /\ [][(op' = "import_triplets" /\ ret'.kind = "raise") => UNCHANGED kgVars]_vars

---------------------------------------------------------------------------
(* validate_content_xp called with the recommended counts *)

RequirementCurves ==
  {DefaultXPCurve,
   XPCurve("linear", 200, Rat(3, 2), Rat(1, 1)),
   XPCurve("linear", 1000, Rat(3, 2), Rat(1, 1)),
   XPCurve("linear", -100, Rat(3, 2), Rat(1, 1))}

RequirementBudgets ==
  {DefaultContentBudget,
   ContentBudget(Rat(1, 2), Rat(1, 2), Rat(0, 1), Rat(0, 1), Rat(0, 1)),
   ContentBudget(Rat(0, 1), Rat(1, 1), Rat(0, 1), Rat(0, 1), Rat(0, 1)),
   ContentBudget(Rat(-1, 400), Rat(1, 1), Rat(0, 1), Rat(0, 1), Rat(1, 400)),
   ContentBudget(Rat(-1, 2), Rat(1, 2), Rat(1, 2), Rat(0, 1), Rat(1, 2))}

(* counts = calculate_content_requirements(); validate_content_xp with the *)
(* count of each category                                                  *)
validate_recommended(sys) ==
  LET requirements == calculate_content_requirements(sys)
  IN  validate_content_xp(sys, requirements.main_quests.count,
                          requirements.side_quests.count, requirements.dungeons.count,
                          requirements.events.count, <<>>)

ValidateRecommended ==
  /\ leveling # <<>>
  /\ ret' = [kind |-> "dict", val |-> validate_recommended(Level)]
  /\ op' = "validate_content_xp"
  /\ UNCHANGED <<gridVars, kgVars, lvlVars, callVars>>

RequirementNext ==
  \/ \E n \in 0..MaxLevel, curve \in RequirementCurves, budget \in RequirementBudgets :
       Construct(n, <<curve>>, <<budget>>)
  \/ CalculateContentRequirements
  \/ ValidateRecommended

(* A LevelingSystem made, its requirements calculated and validated *)
SpecRequirement == Init /\ [][RequirementNext]_vars

FourCategories(requirements) ==
  <<requirements.main_quests, requirements.side_quests, requirements.dungeons,
    requirements.events>>

(* The XP the four recommended counts supply *)
Supplied(requirements) ==
  requirements.main_quests.count * requirements.main_quests.avg_xp
    + requirements.side_quests.count * requirements.side_quests.avg_xp
    + requirements.dungeons.count * requirements.dungeons.avg_xp
    + requirements.events.count * requirements.events.avg_xp

(* count * avg_xp <= total_xp < (count + 1) * avg_xp in every category,    *)
(* and so the counts supply no more than the four total_xp together        *)
CountsWithinShares(sys) ==
  LET requirements == calculate_content_requirements(sys)
  IN  /\ \A k \in 1..4 :
           LET c == FourCategories(requirements)[k]
           IN  /\ c.count * c.avg_xp <= c.total_xp
               /\ c.total_xp < (c.count + 1) * c.avg_xp
      /\ Supplied(requirements) <= FourTotals(requirements)

SumBelowOne(budget) ==
  FourSum(FourPercents(budget)).num < FourSum(FourPercents(budget)).den

(* C30 as stated: in every category count * avg_xp <= total_xp <           *)
(* (count + 1) * avg_xp, so the recommended counts supply no more than the *)
(* four total_xp together; and for every LevelingSystem with               *)
(* total_xp_needed > 0 whose four content percentages sum to less than 1,  *)
(* validate_content_xp called with the recommended counts reports valid =  *)
(* false.                                                                  *)
C30_RecommendedCountsFallShort ==
  leveling # <<>> =>
    /\ CountsWithinShares(Level)
    /\ (Level.total_xp_needed > 0 /\ SumBelowOne(Level.content_budget))
         => ~validate_recommended(Level).valid

(* C30 amended: the bounds on count and on the XP supplied hold for every  *)
(* LevelingSystem; validate_content_xp called with the recommended counts  *)
(* reports valid = false for every LevelingSystem with total_xp_needed > 0 *)
(* whose four content percentages are not negative and sum to less than 1. *)
C30_RecommendedCountsFallShortForProperBudget ==
  leveling # <<>> =>
    /\ CountsWithinShares(Level)
    /\ (/\ Level.total_xp_needed > 0
        /\ \A k \in 1..4 : FourPercents(Level.content_budget)[k].num >= 0
        /\ SumBelowOne(Level.content_budget))
         => ~validate_recommended(Level).valid
    /\ op = "validate_content_xp" => ret.val = validate_recommended(Level)

(* C30 witness: validate_content_xp has returned valid = false for the     *)
(* recommended counts, each of them positive and one leaving a remainder   *)
(* of its share, of a system with a positive total and the default budget. *)
C30_Witness ==
  /\ leveling # <<>>
  /\ op = "validate_content_xp"
  /\ ~ret.val.valid
  /\ Level.total_xp_needed > 0
  /\ Level.content_budget = DefaultContentBudget
  /\ LET requirements == calculate_content_requirements(Level)
     IN  /\ \A k \in 1..4 : FourCategories(requirements)[k].count > 0
         /\ \E k \in 1..4 : LET c == FourCategories(requirements)[k]
                             IN  c.count * c.avg_xp < c.total_xp
         /\ ret.val.total_xp = Supplied(requirements)

====
